---- MODULE Spec2Model ----
(***************************************************************************)
(* Model of the trading-telemetry pipeline:                                *)
(*   - TradingClient   (trading_app/features/client.py)  non-blocking PUSH  *)
(*     publisher with an optional latency ring buffer;                      *)
(*   - TradePublisher  (trading_app/lib/zmq_pub.py) and the UI's app socket *)
(*     (trading_app/features/ui.py), the two sends made with flags=0;       *)
(*   - TradeSubscriber (metrics_sidecar/lib/zmq_sub.py)  the ingestion loop.*)
(*   - MetricsSidecar.handle_trade_message and TradingMetrics               *)
(*     (metrics_sidecar/app.py, lib/metrics.py), the sidecar's handler;     *)
(*   - TaskManager     (trading_app/utils/task_manager.py) and the three    *)
(*     tasks main() registers with it (trading_app/entrypoint.py);          *)
(*   - TradingApp.run_main_loop (trading_app/app.py), the bridge between    *)
(*     the UI's socket and the client;                                      *)
(*   - PublishingBenchmark, the runner commands and LatencyAnalyzer         *)
(*     (trading_app/benchmark/benchmark.py, runners.py, analyzer.py);       *)
(*   - LatencyMonitor and the threads BenchmarkSelfMonitor runs around it   *)
(*     (trading_app/benchmark/monitor.py, self_monitor.py).                 *)
(*                                                                          *)
(* Representation notes.                                                    *)
(*   Optional values: None is <<>>, a present value v is <<v>>.             *)
(*   Floats that the code derives from integer nanoseconds are kept as      *)
(*   exact ratios [num, den]: ns / 1_000_000.0 is [num |-> ns, den |->      *)
(*   1000000], ns / 1000.0 is [num |-> ns, den |-> 1000].                   *)
(*   A ZMQ PUSH socket is its outbound queue, bounded by its send           *)
(*   high-water mark; the network draining it is an environment action.     *)
(*   The benchmark's clock is in integer nanoseconds and two readings of   *)
(*   it are at least one tick apart.                                        *)
(*   Threads interleave between the steps of the monitor's loop; its read   *)
(*   of the client's sample list is one step per element.                   *)
(***************************************************************************)
EXTENDS Integers, Sequences, FiniteSets, TLC

(***************************************************************************)
(* Bounds of the model.                                                     *)
(***************************************************************************)
\* send high-water mark of the TradingClient socket (client.py:30 sets 100)
SNDHWM == 2
\* capacity of the latency ring buffer (client.py:36 sets 10000)
max_samples == 3
\* publish_json calls explored per behaviour
MaxSends == 5
\* send high-water mark of a socket that sets none (libzmq's default, 1000)
DefaultHwm == 1
\* sends explored per behaviour on the two flags=0 sockets
MaxBlockingSends == 3
\* largest sample count handed to get_latency_stats in SpecStats
StatsMaxN == 101

\* start() calls that bind a socket, explored per behaviour
MaxStarts == 2
\* messages reaching the subscriber's endpoint per behaviour
MaxMsgs == 2
\* recorded start() and stop() calls in the explored behaviours
MaxCalls == 4
\* scans of the registry the watchdog makes in the explored behaviours
MaxPolls == 2
\* messages reaching the bridge's inbound socket per behaviour
MaxUiMsgs == 3
\* largest num_trades handed to run_burst_test
MaxBurst == 4
\* metrics_client.publish_json calls explored per behaviour of a library caller
MaxReports == 3
\* longest list of profiles handed to analyze_latency_degradation
MaxProfiles == 3
\* capacity of the monitor's snapshot history (monitor.py:34 sets 1000)
snapshots_maxlen == 2
\* start_monitoring calls that start a thread, explored per behaviour
MaxMonStarts == 2
\* rounds of the monitor loops explored per behaviour
MaxTicks == 3
\* publish_json calls on the monitored client explored per behaviour
MaxMonSends == 2

None == <<>>
Some(v) == <<v>>

Min(a, b) == IF a <= b THEN a ELSE b

\* the trade payloads a caller publishes, and one json.dumps cannot encode
Payloads == {"buy", "sell"}
BadPayload == "unserializable"
\* measured durations of one send attempt, in nanoseconds
ElapsedNs == {800, 2500}

Ms(ns) == [num |-> ns, den |-> 1000000]
Us(ns) == [num |-> ns, den |-> 1000]
RatLeq(a, b) ==
    IF a.den = b.den THEN a.num <= b.num ELSE a.num * b.den <= b.num * a.den

VARIABLES
    \* ---- TradingClient ----
    benchmarking,     \* self._benchmarking
    sock_queue,       \* messages held by self._sock, oldest first
    publish_times,    \* self._publish_times
    result,           \* what the last publish_json call returned (None: nothing yet, or it raised)
    raised,           \* the last publish_json call raised instead of returning
    publish_calls,    \* number of publish_json calls made
    send_attempts,    \* number of self._sock.send_string calls made
    last_outcome,     \* what the transport answered to the last send attempt
    recorded,         \* every sample ever stored in publish_times, in order
    stats,            \* what the last get_latency_stats call returned
    \* ---- TradePublisher and UIClass.app_socket ----
    pub_queue,        \* messages held by TradePublisher._sock, oldest first
    pub_blocked,      \* the payload of a publish_json call suspended inside send_string
    pub_result,       \* what the last TradePublisher.publish_json call returned
    ui_queue,         \* messages held by UIClass.app_socket, oldest first
    ui_blocked,       \* the message of a _send_trade call suspended inside send_json
    ui_events,        \* st.session_state["_events"]
    ui_errors,        \* number of st.error("Invalid trade payload") reports
    ui_raised,        \* the last _send_trade call raised out of send_json
    blocking_sends,   \* number of calls made on the two flags=0 sockets
    \* ---- TradeSubscriber ----
    running,          \* self._running
    sock,             \* self._sock: 0 is None, k the k-th socket created
    open_socks,       \* the sockets created and not yet closed
    inbox,            \* raw messages queued at the bound endpoint, oldest first
    waiters,          \* loops whose recv_string is pending on the open socket, oldest first
    loops,            \* the _message_loop tasks: where each stands and the raw_msg it holds
    readyq,           \* loops whose awaited receive has finished, in the order they will resume
    arrivals,         \* number of messages that reached the endpoint
    received,         \* every raw message taken off a socket, in order; its index is the message's id
    handled,          \* ids of the messages self.handler was called with, in call order
    handler_raised,   \* ids of the messages for which self.handler raised
    escaped,          \* number of exceptions that left _process_message
    closes,           \* closes[k]: number of close() calls made on the k-th socket
    metrics,          \* the sidecar's TradingMetrics (the handler is handle_trade_message)
    \* ---- the subscriber's callers ----
    ctx,              \* where trade_subscriber_context stands ("direct": not used)
    calls,            \* number of start() and stop() calls made so far
    last_call,        \* the last of them: which one, and self._running when it was made
    \* ---- TaskManager ----
    tasks,            \* self.tasks: name -> the asyncio.Task registered under it
    stop_signal,      \* self.stop_signal.is_set()
    watchdog,         \* where the catch_breaking_errors coroutine stands
    polls,            \* number of times the watchdog scanned the registry
    sets,             \* number of stop_signal.set() calls made
    main_pc,          \* main(): "body" (registering, then in gather) or "interrupted"
    \* ---- TradingApp.run_main_loop ----
    internal_sock,    \* the PULL socket bound to APP_ZMQ_ADDR
    internal_closes,  \* number of internal_sock.close() calls made
    internal_inbox,   \* texts queued at internal_sock, oldest first
    ui_arrivals,      \* number of texts that reached internal_sock
    forwarded,        \* number of messages handed to self.client.publish_json
    warnings,         \* number of "Forward failed" log lines
    \* ---- PublishingBenchmark ----
    bench_pc,         \* where the run_burst_test / run_sustained_test call stands
    bench_args,       \* the test being run
    bench_clock,      \* time.perf_counter(), in nanoseconds
    bench_start,      \* start_time
    trades_sent,      \* i of run_burst_test, trades_sent of run_sustained_test
    queue_full_count, \* queue_full_count
    error_count,      \* error_count
    bench_sides,      \* the side of every trade handed to publish_json, in order
    bench_outcomes,   \* the PublishResult of every send of the run, in order
    bench_costs,      \* what every send of the run cost, in nanoseconds
    bench_sleeps,     \* the argument of every time.sleep of the run, in nanoseconds
    bench_result,     \* the BenchmarkResult the call returned
    results_len,      \* len(self.results)
    metrics_client,   \* self.metrics_client is not None
    metrics_queue,    \* messages held by the metrics client's socket
    reports,          \* what became of every metrics_client.publish_json call
    statuses,         \* the status of every marker handed to the metrics client
    last_status_call, \* how the last publish_status call ended
    status_calls,     \* number of publish_status calls a library caller made
    \* ---- runners ----
    runner_pc,        \* "idle", "trying" (inside the try), "returned" or "exited"
    runner_cmd,       \* the command
    runner_tests,     \* the tests the command has still to run
    exit_code,        \* the exit status of the process
    \* ---- latency analyzer ----
    profiles,         \* the LatencyProfile list handed to the analysis
    analysis,         \* what analyze_latency_degradation returned, None before the call
    \* ---- latency monitor ----
    mon_running,      \* LatencyMonitor.running
    mon_loops,        \* every _monitor_loop thread: where it is and what it holds
    monitor_thread,   \* self.monitor_thread: the last thread started, 0 for None
    mon_main,         \* the main thread: "idle" or "joining" inside stop_monitoring
    snapshots,        \* self.snapshots
    alerts,           \* self.alerts, each alert by the name of its rule
    alert_callbacks,  \* self.alert_callbacks, each callback by what it does
    deliveries,       \* every callback(alert) call made, in order
    ticks,            \* rounds of the loops begun so far
    tick_log,         \* what every round found: the samples summarised and the alerts
    writers,          \* the threads that stored a sample in the client's list
    mon_sent          \* publish_json calls made since the monitor was built

clientVars == <<benchmarking, sock_queue, publish_times, result, raised,
                publish_calls, send_attempts, last_outcome, recorded>>
statsVars == <<stats>>
sendVars == <<pub_queue, pub_blocked, pub_result, ui_queue, ui_blocked,
              ui_events, ui_errors, ui_raised, blocking_sends>>
subVars == <<running, sock, open_socks, inbox, waiters, loops, readyq, arrivals,
             received, handled, handler_raised, escaped, closes, metrics>>
callerVars == <<ctx, calls, last_call>>
taskVars == <<tasks, stop_signal, watchdog, polls, sets, main_pc>>
bridgeVars == <<internal_sock, internal_closes, internal_inbox, ui_arrivals,
                forwarded, warnings>>
runVars == <<bench_pc, bench_args, bench_start, trades_sent, queue_full_count,
             error_count, bench_sides, bench_outcomes, bench_costs, bench_sleeps>>
runnerVars == <<runner_pc, runner_cmd, runner_tests, exit_code>>
benchVars == <<runVars, bench_clock, bench_result, results_len, metrics_client,
               metrics_queue, reports, statuses, last_status_call, status_calls,
               runnerVars>>
analyzerVars == <<profiles, analysis>>
monitorVars == <<mon_running, mon_loops, monitor_thread, mon_main, snapshots, alerts,
                 alert_callbacks, deliveries, ticks, tick_log, writers, mon_sent>>
vars == <<clientVars, statsVars, sendVars, subVars, callerVars, taskVars, bridgeVars,
          benchVars, analyzerVars, monitorVars>>

(***************************************************************************)
(* PublishResult (client.py:11-16, zmq_pub.py:11-15)                        *)
(***************************************************************************)
PublishResult(ok, error, elapsed_ms, queue_full) ==
    [ok |-> ok, error |-> error, elapsed_ms |-> elapsed_ms, queue_full |-> queue_full]

\* str(e) of a ZMQError that is not EAGAIN, of EAGAIN, and of json's TypeError
ZmqErrorText == "Context was terminated"
AgainText == "Resource temporarily unavailable"
DumpsErrorText == "Object is not JSON serializable"

(***************************************************************************)
(* socket.send_string(encoded, flags=zmq.NOBLOCK): what the transport       *)
(* answers.  fault is the environment raising a ZMQError other than EAGAIN. *)
(***************************************************************************)
SendNoblock(queue, hwm, fault) ==
    IF fault THEN "error"
    ELSE IF Len(queue) >= hwm THEN "again"
    ELSE "sent"

Enqueue(queue, outcome, payload) ==
    IF outcome = "sent" THEN Append(queue, payload) ELSE queue

(***************************************************************************)
(* TradingClient._publish_fast                                              *)
(***************************************************************************)
FastResultNoFlag(outcome) ==
    CASE outcome = "sent"  -> PublishResult(TRUE, None, None, FALSE)
      [] outcome = "again" -> PublishResult(FALSE, Some(AgainText), None, FALSE)
      [] outcome = "error" -> PublishResult(FALSE, Some(ZmqErrorText), None, FALSE)
      [] outcome = "dumps_error" -> PublishResult(FALSE, Some(DumpsErrorText), None, FALSE)

FastResult(outcome) ==
    CASE outcome = "sent"  -> PublishResult(TRUE, None, None, FALSE)
      [] outcome = "again" -> PublishResult(FALSE, Some("queue_full"), None, TRUE)
      [] outcome = "error" -> PublishResult(FALSE, Some(ZmqErrorText), None, FALSE)
      [] outcome = "dumps_error" -> PublishResult(FALSE, Some(DumpsErrorText), None, FALSE)

publish_fast(payload, fault) ==
    LET outcome == IF payload = BadPayload THEN "dumps_error"
                   ELSE SendNoblock(sock_queue, SNDHWM, fault)
    IN  /\ sock_queue' = Enqueue(sock_queue, outcome, payload)
        /\ result' = Some(FastResult(outcome))
        /\ raised' = FALSE
        /\ send_attempts' = IF outcome = "dumps_error" THEN send_attempts
                            ELSE send_attempts + 1
        /\ last_outcome' = outcome
        /\ UNCHANGED <<publish_times, recorded>>

(***************************************************************************)
(* TradingClient._publish_with_benchmark                                    *)
(***************************************************************************)
StoreSampleStopWhenFull(times, elapsed_ns) ==
    IF Len(times) >= max_samples THEN times ELSE Append(times, elapsed_ns)

\* client.py:70-73
StoreSample(times, elapsed_ns) ==
    Append(IF Len(times) >= max_samples THEN Tail(times) ELSE times, elapsed_ns)

BenchResultErrorUnset(outcome, elapsed_ns) ==
    CASE outcome = "sent"  -> PublishResult(TRUE, None, Some(Ms(elapsed_ns)), FALSE)
      [] outcome = "again" -> PublishResult(FALSE, Some("queue_full"), Some(Ms(elapsed_ns)), TRUE)
      [] outcome = "error" -> PublishResult(FALSE, None, None, FALSE)

BenchResult(outcome, elapsed_ns) ==
    CASE outcome = "sent"  -> PublishResult(TRUE, None, Some(Ms(elapsed_ns)), FALSE)
      [] outcome = "again" -> PublishResult(FALSE, Some("queue_full"), Some(Ms(elapsed_ns)), TRUE)
      [] outcome = "error" -> PublishResult(FALSE, Some(ZmqErrorText), None, FALSE)

publish_with_benchmark(payload, fault, elapsed_ns) ==
    IF payload = BadPayload
    THEN \* json.dumps is outside the try: the TypeError leaves publish_json
         /\ raised' = TRUE
         /\ result' = None
         /\ last_outcome' = "dumps_error"
         /\ UNCHANGED <<sock_queue, publish_times, recorded, send_attempts>>
    ELSE LET outcome == SendNoblock(sock_queue, SNDHWM, fault)
         IN  /\ sock_queue' = Enqueue(sock_queue, outcome, payload)
             /\ publish_times' = IF outcome = "sent"
                                 THEN StoreSample(publish_times, elapsed_ns)
                                 ELSE publish_times
             /\ recorded' = IF outcome = "sent"
                            THEN Append(recorded, elapsed_ns)
                            ELSE recorded
             /\ result' = Some(BenchResult(outcome, elapsed_ns))
             /\ raised' = FALSE
             /\ send_attempts' = send_attempts + 1
             /\ last_outcome' = outcome

(***************************************************************************)
(* TradingClient.publish_json                                               *)
(***************************************************************************)
publish_json(payload, fault, elapsed_ns) ==
    /\ publish_calls < MaxSends
    /\ publish_calls' = publish_calls + 1
    /\ IF benchmarking
       THEN publish_with_benchmark(payload, fault, elapsed_ns)
       ELSE publish_fast(payload, fault)
    /\ UNCHANGED <<benchmarking, statsVars, sendVars, subVars, callerVars, taskVars, bridgeVars, benchVars, analyzerVars, monitorVars>>

Publish ==
    \E payload \in Payloads \cup {BadPayload}, fault \in BOOLEAN, elapsed_ns \in ElapsedNs :
        publish_json(payload, fault, elapsed_ns)

\* the peer takes the oldest queued message off the client's socket
Drain ==
    /\ Len(sock_queue) > 0
    /\ sock_queue' = Tail(sock_queue)
    /\ UNCHANGED <<benchmarking, publish_times, result, raised, publish_calls,
                   send_attempts, last_outcome, recorded, statsVars, sendVars, subVars, callerVars, taskVars, bridgeVars, benchVars, analyzerVars, monitorVars>>

(***************************************************************************)
(* TradingClient.get_latency_stats                                          *)
(***************************************************************************)
RECURSIVE SumTo(_, _)
SumTo(s, k) == IF k = 0 THEN 0 ELSE s[k] + SumTo(s, k - 1)

Unsorted(s) == s

\* list.sort(): the ascending arrangement of s; the k-th element is the value
\* with fewer than k elements below it and at least k elements not above it
SortAsc(s) ==
    LET n == Len(s)
        vals == {s[i] : i \in 1..n}
        below == [v \in vals |-> Cardinality({i \in 1..n : ~RatLeq(v, s[i])})]
        upto == [v \in vals |-> Cardinality({i \in 1..n : RatLeq(s[i], v)})]
    IN  [k \in 1..n |-> CHOOSE v \in vals : below[v] < k /\ k <= upto[v]]

\* int(n * 0.95), int(n * 0.99) and n // 2 as pct = 95, 99, 50.  For every n up
\* to 10001 the double product n * 0.95 (n * 0.99) truncates to the exact
\* floor(n * 95 / 100) (floor(n * 99 / 100)), so integer division gives the
\* index the code computes.
PctIndex(n, pct) == (n * pct) \div 100

get_latency_stats(times) ==
    IF times = <<>>
    THEN None
    ELSE LET n == Len(times)
             times_us == SortAsc([i \in 1..n |-> Us(times[i])])
         IN  Some([count  |-> n,
                   min_us |-> times_us[1],
                   max_us |-> times_us[n],
                   mean_us |-> [num |-> SumTo(times, n), den |-> 1000 * n],
                   p50_us |-> times_us[PctIndex(n, 50) + 1],
                   p95_us |-> times_us[PctIndex(n, 95) + 1],
                   p99_us |-> times_us[PctIndex(n, 99) + 1]])

\* a caller reads the statistics of the current buffer
GetLatencyStats ==
    /\ stats' = Some(get_latency_stats(publish_times))
    /\ UNCHANGED <<clientVars, sendVars, subVars, callerVars, taskVars, bridgeVars, benchVars, analyzerVars, monitorVars>>

(***************************************************************************)
(* TradePublisher.publish_json: send_string(encoded, flags=0) on a socket   *)
(* with SNDTIMEO = 200 ms.  With the queue at its high-water mark the call  *)
(* is suspended inside send_string until the peer makes room or the 200 ms  *)
(* pass.                                                                    *)
(***************************************************************************)
PubPublishResult(ok, error, elapsed_ms) ==
    [ok |-> ok, error |-> error, elapsed_ms |-> elapsed_ms]

PubPublish(payload, fault, elapsed_ns) ==
    /\ pub_blocked = None
    /\ blocking_sends < MaxBlockingSends
    /\ blocking_sends' = blocking_sends + 1
    /\ IF fault
       THEN /\ pub_result' = Some(PubPublishResult(FALSE, Some(ZmqErrorText), None))
            /\ UNCHANGED <<pub_queue, pub_blocked>>
       ELSE IF Len(pub_queue) < DefaultHwm
       THEN /\ pub_queue' = Append(pub_queue, payload)
            /\ pub_result' = Some(PubPublishResult(TRUE, None, Some(Ms(elapsed_ns))))
            /\ UNCHANGED pub_blocked
       ELSE /\ pub_blocked' = Some(payload)
            /\ UNCHANGED <<pub_queue, pub_result>>
    /\ UNCHANGED <<ui_queue, ui_blocked, ui_events, ui_errors, ui_raised,
                   clientVars, statsVars, subVars, callerVars, taskVars, bridgeVars, benchVars, analyzerVars, monitorVars>>

\* the peer made room within the 200 ms: the suspended send goes through
PubSendCompletes(elapsed_ns) ==
    /\ pub_blocked # None
    /\ Len(pub_queue) < DefaultHwm
    /\ pub_queue' = Append(pub_queue, pub_blocked[1])
    /\ pub_result' = Some(PubPublishResult(TRUE, None, Some(Ms(elapsed_ns))))
    /\ pub_blocked' = None
    /\ UNCHANGED <<ui_queue, ui_blocked, ui_events, ui_errors, ui_raised,
                   blocking_sends, clientVars, statsVars, subVars, callerVars, taskVars, bridgeVars, benchVars, analyzerVars, monitorVars>>

\* the 200 ms passed with the queue still full: zmq.Again, caught by except Exception
PubSendTimesOut ==
    /\ pub_blocked # None
    /\ Len(pub_queue) >= DefaultHwm
    /\ pub_result' = Some(PubPublishResult(FALSE, Some(AgainText), None))
    /\ pub_blocked' = None
    /\ UNCHANGED <<pub_queue, ui_queue, ui_blocked, ui_events, ui_errors, ui_raised,
                   blocking_sends, clientVars, statsVars, subVars, callerVars, taskVars, bridgeVars, benchVars, analyzerVars, monitorVars>>

PubDrain ==
    /\ Len(pub_queue) > 0
    /\ pub_queue' = Tail(pub_queue)
    /\ UNCHANGED <<pub_blocked, pub_result, ui_queue, ui_blocked, ui_events,
                   ui_errors, ui_raised, blocking_sends, clientVars, statsVars, subVars, callerVars, taskVars, bridgeVars, benchVars, analyzerVars, monitorVars>>

(***************************************************************************)
(* TradeMsg validation (side: Literal["buy","sell"], qty: Field(ge=0))      *)
(***************************************************************************)
TradeMsgAny(side, qty) == TRUE

TradeMsgOk(side, qty) == side \in {"buy", "sell"} /\ qty >= 0

(***************************************************************************)
(* UIClass._send_trade: app_socket.send_json(msg.model_dump()) with the     *)
(* default flags (0) on a socket that sets no SNDTIMEO (-1, no limit): with *)
(* the queue at its high-water mark the call is suspended until the bridge  *)
(* makes room.                                                              *)
(***************************************************************************)
UISides == {"buy", "sell", "hold"}
UIQtys == {-1, 1}

UIEntry(msg) == [payload |-> msg, ok |-> TRUE]

UISendTrade(side, qty, fault) ==
    /\ ui_blocked = None
    /\ blocking_sends < MaxBlockingSends
    /\ blocking_sends' = blocking_sends + 1
    /\ IF ~TradeMsgOk(side, qty)
       THEN /\ ui_errors' = ui_errors + 1
            /\ ui_raised' = FALSE
            /\ UNCHANGED <<ui_queue, ui_blocked, ui_events>>
       ELSE LET msg == [type |-> "trade", side |-> side, qty |-> qty]
            IN  IF fault
                THEN /\ ui_raised' = TRUE
                     /\ UNCHANGED <<ui_queue, ui_blocked, ui_events, ui_errors>>
                ELSE IF Len(ui_queue) < DefaultHwm
                THEN /\ ui_queue' = Append(ui_queue, msg)
                     /\ ui_events' = Append(ui_events, UIEntry(msg))
                     /\ ui_raised' = FALSE
                     /\ UNCHANGED <<ui_blocked, ui_errors>>
                ELSE /\ ui_blocked' = Some(msg)
                     /\ ui_raised' = FALSE
                     /\ UNCHANGED <<ui_queue, ui_events, ui_errors>>
    /\ UNCHANGED <<pub_queue, pub_blocked, pub_result, clientVars, statsVars, subVars, callerVars, taskVars, bridgeVars, benchVars, analyzerVars, monitorVars>>

\* the bridge made room: the suspended send_json goes through and _send_trade goes on
UISendCompletes ==
    /\ ui_blocked # None
    /\ Len(ui_queue) < DefaultHwm
    /\ ui_queue' = Append(ui_queue, ui_blocked[1])
    /\ ui_events' = Append(ui_events, UIEntry(ui_blocked[1]))
    /\ ui_blocked' = None
    /\ UNCHANGED <<ui_errors, ui_raised, blocking_sends, pub_queue, pub_blocked,
                   pub_result, clientVars, statsVars, subVars, callerVars, taskVars, bridgeVars, benchVars, analyzerVars, monitorVars>>

UIDrain ==
    /\ Len(ui_queue) > 0
    /\ ui_queue' = Tail(ui_queue)
    /\ UNCHANGED <<ui_blocked, ui_events, ui_errors, ui_raised, blocking_sends,
                   pub_queue, pub_blocked, pub_result, clientVars, statsVars, subVars, callerVars, taskVars, bridgeVars, benchVars, analyzerVars, monitorVars>>

(***************************************************************************)
(* _send_trade of lib/ui.py: the same validation, then                      *)
(* TradePublisher.publish_json and the entry that records its result.  The  *)
(* call is taken whole: with the queue at its high-water mark send_string   *)
(* waits its 200 ms, within which the peer makes room or does not.          *)
(***************************************************************************)
lib_send_trade(side, qty, fault, room_made, elapsed_ns) ==
    /\ pub_blocked = None
    /\ blocking_sends < MaxBlockingSends
    /\ blocking_sends' = blocking_sends + 1
    /\ IF ~TradeMsgOk(side, qty)
       THEN /\ ui_errors' = ui_errors + 1
            /\ UNCHANGED <<pub_queue, pub_result, ui_events>>
       ELSE LET msg == [type |-> "trade", side |-> side, qty |-> qty]
                full == Len(pub_queue) >= DefaultHwm
                ok == ~fault /\ (~full \/ room_made)
            IN  /\ pub_queue' = IF ~ok THEN pub_queue
                                ELSE Append(IF full THEN Tail(pub_queue) ELSE pub_queue, side)
                /\ pub_result' = Some(IF ok
                        THEN PubPublishResult(TRUE, None, Some(Ms(elapsed_ns)))
                        ELSE PubPublishResult(FALSE,
                                Some(IF fault THEN ZmqErrorText ELSE AgainText), None))
                /\ ui_events' = Append(ui_events, [payload |-> msg, ok |-> ok])
                /\ UNCHANGED ui_errors
    /\ UNCHANGED <<pub_blocked, ui_queue, ui_blocked, ui_raised, clientVars, statsVars,
                   subVars, callerVars, taskVars, bridgeVars, benchVars, analyzerVars, monitorVars>>

LibSend ==
    \E side \in UISides, qty \in UIQtys, fault \in BOOLEAN, room_made \in BOOLEAN,
       elapsed_ns \in ElapsedNs : lib_send_trade(side, qty, fault, room_made, elapsed_ns)

PubSend ==
    \E payload \in Payloads, fault \in BOOLEAN, elapsed_ns \in ElapsedNs :
        PubPublish(payload, fault, elapsed_ns)
PubUnblock == \E elapsed_ns \in ElapsedNs : PubSendCompletes(elapsed_ns)
UISend == \E side \in UISides, qty \in UIQtys, fault \in BOOLEAN : UISendTrade(side, qty, fault)

(***************************************************************************)
(* Raw messages on the wire.  Each key names one representative payload;    *)
(* Content gives what json.loads and the pydantic models see of it:         *)
(*   syntax   "object" (a JSON object), "array" (valid JSON, not an object, *)
(*            so payload.get raises), "invalid" (json.loads raises);        *)
(*   type     the "type" field, "absent" when there is none;                *)
(*   complete every other required field of the model is present.           *)
(* "bad_utf8" is a frame recv_string cannot decode.                         *)
(***************************************************************************)
Wire(syntax, type, side, qty, test_type, status, complete) ==
    [syntax |-> syntax, type |-> type, side |-> side, qty |-> qty,
     test_type |-> test_type, status |-> status, complete |-> complete]

Content(key) ==
    CASE key = "garbage"        -> Wire("invalid", "absent", "", 0, "", "", FALSE)
      [] key = "array"          -> Wire("array", "absent", "", 0, "", "", FALSE)
      [] key = "bogus"          -> Wire("object", "bogus", "", 0, "", "", TRUE)
      [] key = "no_type"        -> Wire("object", "absent", "buy", 1, "", "", TRUE)
      [] key = "trade_buy"      -> Wire("object", "trade", "buy", 1, "", "", TRUE)
      [] key = "trade_sell"     -> Wire("object", "trade", "sell", 0, "", "", TRUE)
      [] key = "trade_hold"     -> Wire("object", "trade", "hold", 1, "", "", TRUE)
      [] key = "trade_neg"      -> Wire("object", "trade", "buy", -1, "", "", TRUE)
      [] key = "trade_no_ts"    -> Wire("object", "trade", "buy", 1, "", "", FALSE)
      [] key = "benchmark_ok"   -> Wire("object", "benchmark", "", 0, "burst", "", TRUE)
      [] key = "status_started" -> Wire("object", "benchmark_status", "", 0, "", "started", TRUE)
      [] key = "status_running" -> Wire("object", "benchmark_status", "", 0, "", "running", TRUE)
      [] key = "status_completed" ->
             Wire("object", "benchmark_status", "", 0, "", "completed", TRUE)
      [] key = "status_failed"  -> Wire("object", "benchmark_status", "", 0, "", "failed", TRUE)
      [] key = "status_alert"   -> Wire("object", "benchmark_status", "", 0, "", "alert", TRUE)
      [] key = "status_no_name" -> Wire("object", "benchmark_status", "", 0, "", "started", FALSE)
      [] key = "bad_utf8"       -> Wire("invalid", "absent", "", 0, "", "", FALSE)

\* the messages peers send in the explored behaviours
ArrivingKeys == {"garbage", "bogus", "trade_hold", "trade_neg", "trade_no_ts",
                 "trade_buy", "bad_utf8"}

\* what reaches the sidecar: the four status messages of the self-monitor
\* (startup, health, alert, shutdown), a failed-run status, a benchmark result,
\* a trade, and a frame that is not UTF-8
TelemetryKeys == {"status_started", "status_running", "status_alert", "status_completed",
                  "status_failed", "benchmark_ok", "trade_sell", "bad_utf8"}

\* the result fields of a benchmark envelope (the message of test_metrics.py);
\* p95_us is 45.7, kept as a ratio
Benchmark(key) ==
    [test_type |-> Content(key).test_type, test_name |-> "test_metrics_publishing",
     total_trades |-> 100, trades_per_second |-> 200,
     p95_us |-> [num |-> 457, den |-> 10]]
BenchLabels == {<<"burst", "test_metrics_publishing">>}

(***************************************************************************)
(* TradingMetrics: the counters and gauges the sidecar exposes.  Of the     *)
(* benchmark family, benchmark_tests_total, benchmark_trades_published_total*)
(* and the throughput and p95 gauges are kept; the other gauges are set by   *)
(* the same statements.  A gauge never set is None.                         *)
(***************************************************************************)
record_trade(m, side, qty) ==
    [m EXCEPT !.trades_total[side] = @ + 1, !.volume_total[side] = @ + qty]

record_benchmark(m, b) ==
    LET l == <<b.test_type, b.test_name>>
    IN  [m EXCEPT !.benchmark_tests_total[l] = @ + 1,
                  !.benchmark_trades_published_total[l] = @ + b.total_trades,
                  !.benchmark_throughput_trades_per_second[l] = Some(b.trades_per_second),
                  !.benchmark_latency_p95_microseconds[l] = Some(b.p95_us)]

\* MetricsSidecar.handle_trade_message: record_trade(trade_msg.side, .qty, .ts)
\* inside try/except Exception.  A BenchmarkMsg or BenchmarkStatusMsg has no
\* side: the attribute access raises, the except logs, nothing is recorded.
handle_trade_message(m, key) ==
    LET c == Content(key)
    IN  IF c.type = "trade" THEN record_trade(m, c.side, c.qty) ELSE m

(***************************************************************************)
(* TradeSubscriber._process_message                                         *)
(***************************************************************************)
DecodesUnvalidated(key) ==
    LET c == Content(key)
    IN  c.syntax = "object" /\ c.type \in {"trade", "benchmark", "benchmark_status"}

\* json.loads, payload.get("type", "unknown") and the model constructor all succeed
Decodes(key) ==
    LET c == Content(key)
    IN  /\ c.syntax = "object"
        /\ CASE c.type = "trade" -> TradeMsgOk(c.side, c.qty) /\ c.complete
             [] c.type = "benchmark" ->
                    c.test_type \in {"burst", "sustained", "profile"} /\ c.complete
             [] c.type = "benchmark_status" ->
                    c.status \in {"started", "running", "completed", "failed"} /\ c.complete
             [] OTHER -> FALSE

process_message_uncaught(key, raises) ==
    [invoked |-> Decodes(key), escaped |-> Decodes(key) /\ raises]

\* invoked: self.handler was called; escaped: an exception left _process_message
\* (raises: the handler raises on this message)
process_message(key, raises) ==
    [invoked |-> Decodes(key), escaped |-> FALSE]

(***************************************************************************)
(* TradeSubscriber._message_loop.  A loop task stands at one of:            *)
(*   "unborn"      not created                                              *)
(*   "new"         created by start(), not yet run                          *)
(*   "awaiting"    suspended in wait_for(recv_string(), 1.0)                *)
(*   "ready"       its receive finished with raw_msg, the task not resumed  *)
(*   "recv_failed" its receive finished with an exception                   *)
(*   "interrupted" its receive was cancelled by the socket being closed     *)
(*   "sleeping"    in asyncio.sleep(0.1) after logging an error             *)
(*   "done"        left the while loop;  "cancelled"  ended by CancelledError*)
(***************************************************************************)
\* while self._running and self._sock: ... recv_string()
HeadPc ==
    IF running /\ sock # 0
    THEN IF sock \in open_socks THEN "awaiting" ELSE "sleeping"
    ELSE "done"

EnterHead(L, ws) == IF HeadPc = "awaiting" THEN Append(ws, L) ELSE ws

Without(ws, L) == SelectSeq(ws, LAMBDA x : x # L)

start_rebinds ==
    /\ sock < MaxStarts
    /\ sock' = sock + 1
    /\ open_socks' = open_socks \cup {sock + 1}
    /\ running' = TRUE
    /\ loops' = [loops EXCEPT ![sock + 1] = [pc |-> "new", raw |-> 0]]
    /\ UNCHANGED <<inbox, waiters, readyq, arrivals, received, handled,
                   handler_raised, escaped, metrics, closes>>

\* TradeSubscriber.start: a new context, a new PULL socket bound at bind_addr
\* and a new _message_loop task, unless self._running
start ==
    IF running
    THEN UNCHANGED subVars
    ELSE /\ sock < MaxStarts
         /\ sock' = sock + 1
         /\ open_socks' = open_socks \cup {sock + 1}
         /\ running' = TRUE
         /\ loops' = [loops EXCEPT ![sock + 1] = [pc |-> "new", raw |-> 0]]
         /\ UNCHANGED <<inbox, waiters, readyq, arrivals, received, handled,
                        handler_raised, escaped, metrics, closes>>

stop_unguarded(cancel) ==
    /\ running' = FALSE
    /\ open_socks' = open_socks \ {sock}
    /\ closes' = IF sock # 0 THEN [closes EXCEPT ![sock] = @ + 1] ELSE closes
    /\ inbox' = <<>>
    /\ waiters' = <<>>
    /\ UNCHANGED <<loops, readyq, sock, arrivals, received, handled, handler_raised,
                   escaped, metrics>>

\* TradeSubscriber.stop.  Closing the socket drops what is queued at it; a
\* receive pending on it is either cancelled (cancel) or left to time out
\* (which also stands for a wait_for whose second had passed when stop() ran,
\* its task not yet resumed).
stop(cancel) ==
    IF ~running
    THEN UNCHANGED subVars
    ELSE /\ running' = FALSE
         /\ open_socks' = open_socks \ {sock}
         /\ inbox' = <<>>
         /\ waiters' = <<>>
         /\ IF cancel
            THEN /\ loops' = [L \in DOMAIN loops |->
                                IF \E i \in 1..Len(waiters) : waiters[i] = L
                                THEN [loops[L] EXCEPT !.pc = "interrupted"]
                                ELSE loops[L]]
                 /\ readyq' = readyq \o waiters
            ELSE UNCHANGED <<loops, readyq>>
         /\ closes' = [closes EXCEPT ![sock] = @ + 1]
         /\ UNCHANGED <<sock, arrivals, received, handled, handler_raised, escaped,
                        metrics>>

\* start() and stop() called by a holder of the subscriber of whom no record
\* is kept
Start == start /\ UNCHANGED <<callerVars, clientVars, statsVars, sendVars, taskVars, bridgeVars, benchVars, analyzerVars, monitorVars>>
Stop(cancel) ==
    stop(cancel) /\ UNCHANGED <<callerVars, clientVars, statsVars, sendVars, taskVars, bridgeVars, benchVars, analyzerVars, monitorVars>>

\* a recorded call: the caller notes which operation it calls and whether the
\* subscriber was running
Called(op) ==
    /\ calls < MaxCalls
    /\ calls' = calls + 1
    /\ last_call' = [op |-> op, was_running |-> running]

\* trade_subscriber_context: await subscriber.start(); yield subscriber
ContextEnters ==
    /\ ctx = "outside"
    /\ ctx' = "inside"
    /\ start
    /\ Called("start")
    /\ UNCHANGED <<clientVars, statsVars, sendVars, taskVars, bridgeVars, benchVars, analyzerVars, monitorVars>>

\* trade_subscriber_context: finally: await subscriber.stop()
ContextExit(cancel) ==
    /\ ctx = "inside"
    /\ ctx' = "exited"
    /\ stop(cancel)
    /\ Called("stop")
    /\ UNCHANGED <<clientVars, statsVars, sendVars, taskVars, bridgeVars, benchVars, analyzerVars, monitorVars>>

\* whoever holds the subscriber (one built directly, or the one the context
\* manager yielded) calls start() or stop() on it
CallerStarts ==
    /\ ctx # "outside"
    /\ start
    /\ Called("start")
    /\ UNCHANGED <<ctx, clientVars, statsVars, sendVars, taskVars, bridgeVars, benchVars, analyzerVars, monitorVars>>

CallerStop(cancel) ==
    /\ ctx # "outside"
    /\ stop(cancel)
    /\ Called("stop")
    /\ UNCHANGED <<ctx, clientVars, statsVars, sendVars, taskVars, bridgeVars, benchVars, analyzerVars, monitorVars>>

\* a peer's message reaches the bound endpoint
Arrive(key) ==
    /\ open_socks # {}
    /\ arrivals < MaxMsgs
    /\ arrivals' = arrivals + 1
    /\ inbox' = Append(inbox, key)
    /\ UNCHANGED <<running, sock, open_socks, waiters, loops, readyq, received,
                   handled, handler_raised, escaped, metrics, closes, callerVars,
                   clientVars, statsVars, sendVars, taskVars, bridgeVars, benchVars, analyzerVars, monitorVars>>

\* the oldest queued message completes the oldest pending recv_string
Deliver ==
    /\ inbox # <<>>
    /\ waiters # <<>>
    /\ LET L == Head(waiters)
           key == Head(inbox)
           id == Len(received) + 1
       IN  /\ received' = Append(received, key)
           /\ loops' = [loops EXCEPT ![L] =
                           IF key = "bad_utf8"
                           THEN [pc |-> "recv_failed", raw |-> 0]
                           ELSE [pc |-> "ready", raw |-> id]]
           /\ readyq' = Append(readyq, L)
    /\ inbox' = Tail(inbox)
    /\ waiters' = Tail(waiters)
    /\ UNCHANGED <<running, sock, open_socks, arrivals, handled, handler_raised,
                   escaped, metrics, closes, callerVars, clientVars, statsVars, sendVars, taskVars, bridgeVars, benchVars, analyzerVars, monitorVars>>

\* the event loop resumes the task whose receive finished first.  raises: the
\* handler is one that raises on this message; the sidecar's handler,
\* handle_trade_message, never does, and is the one that writes metrics.
Resume(raises) ==
    /\ readyq # <<>>
    /\ LET L == Head(readyq)
           pc == loops[L].pc
           id == loops[L].raw
       IN  CASE pc = "ready" ->
                  LET out == process_message(received[id], raises)
                  IN  /\ handled' = IF out.invoked THEN Append(handled, id) ELSE handled
                      /\ handler_raised' = IF out.invoked /\ raises
                                           THEN handler_raised \cup {id}
                                           ELSE handler_raised
                      /\ escaped' = IF out.escaped THEN escaped + 1 ELSE escaped
                      /\ metrics' = IF out.invoked /\ ~raises
                                    THEN handle_trade_message(metrics, received[id])
                                    ELSE metrics
                      /\ loops' = [loops EXCEPT ![L] =
                                      [pc |-> IF out.escaped THEN "sleeping" ELSE HeadPc,
                                       raw |-> 0]]
                      /\ waiters' = IF out.escaped THEN waiters ELSE EnterHead(L, waiters)
             [] pc = "recv_failed" ->
                  /\ loops' = [loops EXCEPT ![L].pc = "sleeping"]
                  /\ UNCHANGED <<handled, handler_raised, escaped, metrics, waiters>>
             [] pc = "interrupted" ->
                  /\ loops' = [loops EXCEPT ![L].pc = "cancelled"]
                  /\ UNCHANGED <<handled, handler_raised, escaped, metrics, waiters>>
    /\ readyq' = Tail(readyq)
    /\ UNCHANGED <<running, sock, open_socks, inbox, arrivals, received, closes,
                   callerVars, clientVars, statsVars, sendVars, taskVars, bridgeVars, benchVars, analyzerVars, monitorVars>>

\* wait_for's second passes with nothing received: continue
Timeout(L) ==
    /\ loops[L].pc = "awaiting"
    /\ loops' = [loops EXCEPT ![L].pc = HeadPc]
    /\ waiters' = EnterHead(L, Without(waiters, L))
    /\ UNCHANGED <<running, sock, open_socks, inbox, readyq, arrivals, received,
                   handled, handler_raised, escaped, metrics, closes, callerVars,
                   clientVars, statsVars, sendVars, taskVars, bridgeVars, benchVars, analyzerVars, monitorVars>>

\* asyncio.sleep(0.1) returns
Wake(L) ==
    /\ loops[L].pc = "sleeping"
    /\ loops' = [loops EXCEPT ![L].pc = HeadPc]
    /\ waiters' = EnterHead(L, waiters)
    /\ UNCHANGED <<running, sock, open_socks, inbox, readyq, arrivals, received,
                   handled, handler_raised, escaped, metrics, closes, callerVars,
                   clientVars, statsVars, sendVars, taskVars, bridgeVars, benchVars, analyzerVars, monitorVars>>

\* the task created by start() runs for the first time
FirstRun(L) ==
    /\ loops[L].pc = "new"
    /\ loops' = [loops EXCEPT ![L].pc = HeadPc]
    /\ waiters' = EnterHead(L, waiters)
    /\ UNCHANGED <<running, sock, open_socks, inbox, readyq, arrivals, received,
                   handled, handler_raised, escaped, metrics, closes, callerVars,
                   clientVars, statsVars, sendVars, taskVars, bridgeVars, benchVars, analyzerVars, monitorVars>>

StopCall == \E cancel \in BOOLEAN : Stop(cancel)
ContextExits == \E cancel \in BOOLEAN : ContextExit(cancel)
CallerStops == \E cancel \in BOOLEAN : CallerStop(cancel)
\* a trade, or a frame that is not UTF-8
LifecycleKeys == {"trade_buy", "bad_utf8"}
TradeArrives == \E key \in LifecycleKeys : Arrive(key)
MessageArrives == \E key \in ArrivingKeys : Arrive(key)
LoopResumes == \E raises \in BOOLEAN : Resume(raises)
TelemetryArrives == \E key \in TelemetryKeys : Arrive(key)
SidecarResumes == Resume(FALSE)
LoopTimesOut == \E L \in 1..MaxStarts : Timeout(L)
LoopWakes == \E L \in 1..MaxStarts : Wake(L)
LoopFirstRun == \E L \in 1..MaxStarts : FirstRun(L)

\* no call made yet; the subscriber was built directly
CallerInit ==
    /\ ctx = "direct"
    /\ calls = 0
    /\ last_call = [op |-> "none", was_running |-> FALSE]

\* no call made yet; the subscriber is the one trade_subscriber_context builds
ContextInit ==
    /\ ctx = "outside"
    /\ calls = 0
    /\ last_call = [op |-> "none", was_running |-> FALSE]

\* TradeSubscriber.__init__
SubInit ==
    /\ running = FALSE
    /\ sock = 0
    /\ open_socks = {}
    /\ inbox = <<>>
    /\ waiters = <<>>
    /\ loops = [L \in 1..MaxStarts |-> [pc |-> "unborn", raw |-> 0]]
    /\ readyq = <<>>
    /\ arrivals = 0
    /\ received = <<>>
    /\ handled = <<>>
    /\ handler_raised = {}
    /\ escaped = 0
    /\ closes = [k \in 1..MaxStarts |-> 0]
    /\ metrics = [trades_total |-> [s \in {"buy", "sell"} |-> 0],
                  volume_total |-> [s \in {"buy", "sell"} |-> 0],
                  benchmark_tests_total |-> [l \in BenchLabels |-> 0],
                  benchmark_trades_published_total |-> [l \in BenchLabels |-> 0],
                  benchmark_throughput_trades_per_second |-> [l \in BenchLabels |-> None],
                  benchmark_latency_p95_microseconds |-> [l \in BenchLabels |-> None]]

(***************************************************************************)
(* TaskManager and the three activities main() registers with it, in this   *)
(* order.  A task (asyncio.Task) stands at one of:                          *)
(*   "absent"     not registered                                            *)
(*   "new"        created by add_task, its coroutine not yet entered        *)
(*   "running"    suspended at an await of its coroutine                    *)
(*   "done_ok"    its coroutine returned                                    *)
(*   "done_error" its coroutine raised an Exception                         *)
(*   "cancelled"  ended by CancelledError (task.cancelled() is true)        *)
(* cancel_req: task.cancel() was called and the CancelledError is still to  *)
(* be thrown into the coroutine.                                            *)
(* The watchdog coroutine (the "error monitor" task) stands at "unborn",    *)
(* "new", "sleeping" (in asyncio.sleep(1)) or "returned".                   *)
(***************************************************************************)
TaskOrder == <<"streamlit ui", "main loop", "error monitor">>
TaskNames == {TaskOrder[i] : i \in 1..Len(TaskOrder)}
Monitor == "error monitor"
Activities == TaskNames \ {Monitor}

Task(st, cancel_req) == [st |-> st, cancel_req |-> cancel_req]
Registered == {n \in TaskNames : tasks[n].st # "absent"}
\* task.done()
Done(t) == t.st \in {"done_ok", "done_error", "cancelled"}

Finished(t) == Done(t)

\* task.done() and not task.cancelled(), and task.result() raises an Exception
Broken(t) == t.st = "done_error"

EventToggle(ev) == ~ev

\* asyncio.Event.set(): the flag after the call, whatever it was before
EventSet(ev) == TRUE

\* TaskManager.add_task, as main() calls it
add_task(name) ==
    /\ \E i \in 1..Len(TaskOrder) :
          /\ TaskOrder[i] = name
          /\ tasks[name].st = "absent"
          /\ \A j \in 1..(i - 1) : tasks[TaskOrder[j]].st # "absent"
    /\ tasks' = [tasks EXCEPT ![name] = Task("new", FALSE)]
    /\ watchdog' = IF name = Monitor THEN "new" ELSE watchdog
    /\ main_pc = "body"
    /\ UNCHANGED <<stop_signal, polls, sets, main_pc, clientVars, statsVars, sendVars,
                   subVars, callerVars, bridgeVars, benchVars, analyzerVars, monitorVars>>

CancelEvery(ts) ==
    [n \in DOMAIN ts |->
        IF ts[n].st # "absent" THEN [ts[n] EXCEPT !.cancel_req = TRUE] ELSE ts[n]]

\* the loop of cancel_all_tasks: task.cancel() on every task that is not done
CancelPending(ts) ==
    [n \in DOMAIN ts |->
        IF ts[n].st # "absent" /\ ~Done(ts[n]) THEN [ts[n] EXCEPT !.cancel_req = TRUE]
        ELSE ts[n]]

\* TaskManager.cancel_all_tasks (called by TradingApp.exit_handler)
cancel_all_tasks ==
    /\ tasks' = CancelPending(tasks)
    /\ UNCHANGED <<stop_signal, watchdog, polls, sets, main_pc, clientVars, statsVars,
                   sendVars, subVars, callerVars, bridgeVars, benchVars, analyzerVars, monitorVars>>

\* the event loop runs a task for the first time: a task cancelled before
\* that never enters its coroutine
TaskFirstRun(name) ==
    /\ tasks[name].st = "new"
    /\ IF tasks[name].cancel_req
       THEN /\ tasks' = [tasks EXCEPT ![name] = Task("cancelled", FALSE)]
            /\ watchdog' = IF name = Monitor THEN "returned" ELSE watchdog
       ELSE IF name = Monitor /\ stop_signal
            \* while not self.stop_signal.is_set() is false at once
            THEN /\ tasks' = [tasks EXCEPT ![name] = Task("done_ok", FALSE)]
                 /\ watchdog' = "returned"
            ELSE /\ tasks' = [tasks EXCEPT ![name] = Task("running", FALSE)]
                 /\ watchdog' = IF name = Monitor THEN "sleeping" ELSE watchdog
    /\ UNCHANGED <<stop_signal, polls, sets, main_pc, clientVars, statsVars, sendVars,
                   subVars, callerVars, bridgeVars, benchVars, analyzerVars, monitorVars>>

\* an activity other than the watchdog ends by itself:
\*   "seen"   its while loop found the stop signal set and it returned;
\*   "died"   UIClass.run found the streamlit process dead: it sets the signal
\*            and returns;
\*   "raised" an Exception left the coroutine; run_streamlit_ui sets the signal
\*            before re-raising, run_main_loop has no such handler.
ActivityEnds(name, how) ==
    /\ name \in Activities
    /\ tasks[name].st = "running"
    /\ ~tasks[name].cancel_req
    /\ how = "seen" => stop_signal
    /\ how = "died" => name = "streamlit ui"
    /\ tasks' = [tasks EXCEPT ![name] =
                    Task(IF how = "raised" THEN "done_error" ELSE "done_ok", FALSE)]
    /\ IF how = "died" \/ (how = "raised" /\ name = "streamlit ui")
       THEN stop_signal' = EventSet(stop_signal) /\ sets' = sets + 1
       ELSE UNCHANGED <<stop_signal, sets>>
    /\ UNCHANGED <<watchdog, polls, main_pc, clientVars, statsVars, sendVars, subVars,
                   callerVars, bridgeVars, benchVars, analyzerVars, monitorVars>>

\* the CancelledError requested by task.cancel() is thrown at the await the
\* coroutine is suspended in.  run_streamlit_ui, run_main_loop and
\* catch_breaking_errors each catch it and return.
CancelDelivered(name) ==
    /\ tasks[name].st = "running"
    /\ tasks[name].cancel_req
    /\ tasks' = [tasks EXCEPT ![name] = Task("done_ok", FALSE)]
    /\ watchdog' = IF name = Monitor THEN "returned" ELSE watchdog
    /\ UNCHANGED <<stop_signal, polls, sets, main_pc, clientVars, statsVars, sendVars,
                   subVars, callerVars, bridgeVars, benchVars, analyzerVars, monitorVars>>

ScanFirstOnly(ts) == Broken(ts[TaskOrder[1]])

\* the for loop of catch_breaking_errors finds a task whose result() raises
Scan(ts) == \E n \in DOMAIN ts : Broken(ts[n])

\* TaskManager.catch_breaking_errors: asyncio.sleep(1) returns, the registry is
\* scanned, then the while condition is evaluated again
catch_breaking_errors ==
    /\ watchdog = "sleeping"
    /\ ~tasks[Monitor].cancel_req
    /\ polls < MaxPolls
    /\ polls' = polls + 1
    /\ IF Scan(tasks)
       THEN /\ stop_signal' = EventSet(stop_signal)
            /\ sets' = sets + 1
            /\ watchdog' = "returned"
            /\ tasks' = [tasks EXCEPT ![Monitor] = Task("done_ok", FALSE)]
       ELSE /\ UNCHANGED <<stop_signal, sets>>
            /\ IF stop_signal
               THEN /\ watchdog' = "returned"
                    /\ tasks' = [tasks EXCEPT ![Monitor] = Task("done_ok", FALSE)]
               ELSE UNCHANGED <<watchdog, tasks>>
    /\ UNCHANGED <<main_pc, clientVars, statsVars, sendVars, subVars, callerVars, bridgeVars, benchVars, analyzerVars, monitorVars>>

\* main(): gather raised KeyboardInterrupt or CancelledError
MainInterrupted ==
    /\ Registered = TaskNames
    /\ main_pc = "body"
    /\ main_pc' = "interrupted"
    /\ stop_signal' = EventSet(stop_signal)
    /\ sets' = sets + 1
    /\ UNCHANGED <<tasks, watchdog, polls, clientVars, statsVars, sendVars, subVars,
                   callerVars, bridgeVars, benchVars, analyzerVars, monitorVars>>

AddTask == \E name \in TaskNames : add_task(name)
TaskStarts == \E name \in TaskNames : TaskFirstRun(name)
ActivityFinishes == \E name \in Activities, how \in {"seen", "died", "raised"} :
                       ActivityEnds(name, how)
CancelArrives == \E name \in TaskNames : CancelDelivered(name)

\* TaskManager.__init__
TaskInit ==
    /\ tasks = [n \in TaskNames |-> Task("absent", FALSE)]
    /\ stop_signal = FALSE
    /\ watchdog = "unborn"
    /\ polls = 0
    /\ sets = 0
    /\ main_pc = "body"

(***************************************************************************)
(* TradingApp.run_main_loop, the "main loop" activity in detail: the bridge *)
(* that pulls the UI's messages off internal_sock and forwards each through *)
(* the plain-mode TradingClient.  Its only await is asyncio.sleep(0.01), so *)
(* a "running" bridge task is always suspended there.                       *)
(* internal_sock is "none" (not created), "open", "closed", or "unbound"     *)
(* (bind raised before the try block was entered).                          *)
(***************************************************************************)
Bridge == "main loop"
\* what recv_string hands over: the text of a trade, and a text cut short
UiTexts == {"{\"side\": \"buy\"}", "{\"side\": \"bu"}

\* json.loads(msg): the payload, or None when it raises JSONDecodeError
JsonLoads(text) == IF text = "{\"side\": \"buy\"}" THEN Some("buy") ELSE None

BridgeIgnoresSignal(signal) == TRUE

\* while not self.tm.stop_signal.is_set()
BridgeContinues(signal) == ~signal

\* finally: internal_sock.close(), and the coroutine ends
BridgeExit(st) ==
    /\ internal_sock' = "closed"
    /\ internal_closes' = internal_closes + 1
    /\ tasks' = [tasks EXCEPT ![Bridge] = Task(st, FALSE)]

\* self.client.publish_json(payload) on the client main() builds (plain mode)
BridgeForward(payload, fault) ==
    /\ publish_fast(payload, fault)
    /\ publish_calls' = publish_calls + 1
    /\ UNCHANGED benchmarking

\* from the while test to the next await asyncio.sleep(0.01), or out of the loop
BridgePass(fault) ==
    IF ~BridgeContinues(stop_signal)
    THEN /\ BridgeExit("done_ok")
         /\ UNCHANGED <<internal_inbox, forwarded, warnings, clientVars>>
    ELSE IF internal_inbox = <<>>
    THEN \* zmq.Again: pass
         /\ internal_sock' = "open"
         /\ tasks' = [tasks EXCEPT ![Bridge] = Task("running", FALSE)]
         /\ UNCHANGED <<internal_closes, internal_inbox, forwarded, warnings, clientVars>>
    ELSE LET payload == JsonLoads(Head(internal_inbox))
         IN  /\ internal_inbox' = Tail(internal_inbox)
             /\ IF payload = None
                THEN \* JSONDecodeError is neither zmq.Again nor CancelledError
                     /\ BridgeExit("done_error")
                     /\ UNCHANGED <<forwarded, warnings, clientVars>>
                ELSE /\ BridgeForward(payload[1], fault)
                     /\ forwarded' = forwarded + 1
                     /\ warnings' = IF result'[1].ok THEN warnings ELSE warnings + 1
                     /\ internal_sock' = "open"
                     /\ tasks' = [tasks EXCEPT ![Bridge] = Task("running", FALSE)]
                     /\ UNCHANGED internal_closes

\* the event loop runs the bridge task for the first time
run_main_loop(bind_ok, fault) ==
    /\ tasks[Bridge].st = "new"
    /\ IF tasks[Bridge].cancel_req
       THEN /\ tasks' = [tasks EXCEPT ![Bridge] = Task("cancelled", FALSE)]
            /\ UNCHANGED <<internal_sock, internal_closes, internal_inbox, forwarded,
                           warnings, clientVars>>
       ELSE IF ~bind_ok
       THEN \* internal_sock.bind raises ZMQError ahead of the try block
            /\ internal_sock' = "unbound"
            /\ tasks' = [tasks EXCEPT ![Bridge] = Task("done_error", FALSE)]
            /\ UNCHANGED <<internal_closes, internal_inbox, forwarded, warnings,
                           clientVars>>
       ELSE BridgePass(fault)
    /\ UNCHANGED <<ui_arrivals, stop_signal, watchdog, polls, sets, main_pc, statsVars,
                   sendVars, subVars, callerVars, benchVars, analyzerVars, monitorVars>>

\* asyncio.sleep(0.01) returns
BridgeWake(fault) ==
    /\ tasks[Bridge].st = "running"
    /\ ~tasks[Bridge].cancel_req
    /\ BridgePass(fault)
    /\ UNCHANGED <<ui_arrivals, stop_signal, watchdog, polls, sets, main_pc, statsVars,
                   sendVars, subVars, callerVars, benchVars, analyzerVars, monitorVars>>

\* the CancelledError is thrown at asyncio.sleep(0.01): except, then finally
BridgeCancelled ==
    /\ tasks[Bridge].st = "running"
    /\ tasks[Bridge].cancel_req
    /\ BridgeExit("done_ok")
    /\ UNCHANGED <<internal_inbox, forwarded, warnings, ui_arrivals, stop_signal,
                   watchdog, polls, sets, main_pc, clientVars, statsVars, sendVars,
                   subVars, callerVars, benchVars, analyzerVars, monitorVars>>

\* a message pushed to APP_ZMQ_ADDR reaches the bound socket
UiPush(text) ==
    /\ internal_sock = "open"
    /\ ui_arrivals < MaxUiMsgs
    /\ ui_arrivals' = ui_arrivals + 1
    /\ internal_inbox' = Append(internal_inbox, text)
    /\ UNCHANGED <<internal_sock, internal_closes, forwarded, warnings, clientVars,
                   statsVars, sendVars, subVars, callerVars, taskVars, benchVars, analyzerVars, monitorVars>>

BridgeStarts == \E bind_ok \in BOOLEAN, fault \in BOOLEAN : run_main_loop(bind_ok, fault)
BridgeWakes == \E fault \in BOOLEAN : BridgeWake(fault)
UiPushes == \E text \in UiTexts : UiPush(text)
OtherTaskStarts == \E name \in TaskNames \ {Bridge} : TaskFirstRun(name)
UiActivityFinishes == \E how \in {"seen", "died", "raised"} : ActivityEnds("streamlit ui", how)
OtherCancelArrives == \E name \in TaskNames \ {Bridge} : CancelDelivered(name)

\* TradingApp.__init__ creates no socket
BridgeInit ==
    /\ internal_sock = "none"
    /\ internal_closes = 0
    /\ internal_inbox = <<>>
    /\ ui_arrivals = 0
    /\ forwarded = 0
    /\ warnings = 0

(***************************************************************************)
(* PublishingBenchmark (benchmark/benchmark.py) and the runner commands     *)
(* (benchmark/runners.py).  The benchmark sends through a TradingClient in  *)
(* benchmark mode (clientVars) and reports through metrics_client, a second *)
(* client in plain mode whose socket is metrics_queue.                      *)
(* Time is in nanoseconds: bench_clock is time.perf_counter().  A send      *)
(* advances it by the cost of the send, time.sleep by the time slept, and   *)
(* the code between two readings of the clock by at least one tick.         *)
(* bench_pc is "idle", "burst" / "sustained" (inside the send loop of       *)
(* run_burst_test / run_sustained_test), "returned" or "raised".            *)
(***************************************************************************)
Max(a, b) == IF a >= b THEN a ELSE b

\* the rates and durations handed to run_sustained_test, per second and in ns
Rates == {0, 100000, 1000000}
Durations == {0, 4000}
BurstSizes == 0..MaxBurst
\* what a metrics_client.publish_json call meets: nothing, a ZMQError inside
\* the client (a failed PublishResult), or an Exception leaving the call
ReportFaults == {"none", "zmq", "raises"}
\* a TradingClient in plain mode returns its failures
ClientFaults == {"none", "zmq"}
Statuses == {"started", "running", "completed", "failed"}

BurstTest(n) == [kind |-> "burst", n |-> n, d |-> 0, r |-> 0]
SustainedTest(d, r) == [kind |-> "sustained", n |-> 0, d |-> d, r |-> r]
RangeError == [kind |-> "range_error", n |-> 0, d |-> 0, r |-> 0]
NoTest == [kind |-> "none", n |-> 0, d |-> 0, r |-> 0]

SideAlwaysBuy(i) == "buy"

\* side = "buy" if i % 2 == 0 else "sell"
Side(i) == IF i % 2 = 0 THEN "buy" ELSE "sell"

TallyFailures(res, qf, err) ==
    <<IF res.queue_full THEN qf + 1 ELSE qf, IF ~res.ok THEN err + 1 ELSE err>>

\* if result.queue_full: queue_full_count += 1 / elif not result.ok: error_count += 1
Tally(res, qf, err) ==
    IF res.queue_full THEN <<qf + 1, err>>
    ELSE IF ~res.ok THEN <<qf, err + 1>>
    ELSE <<qf, err>>

\* interval = 1.0 / trades_per_second
IntervalNs(rate) == 1000000000 \div rate

\* (result.elapsed_ms or 0) / 1000.0
ElapsedOrZero(res) ==
    IF res.elapsed_ms = None THEN 0
    ELSE res.elapsed_ms[1].num * (1000000 \div res.elapsed_ms[1].den)

\* max(0, interval - (result.elapsed_ms or 0) / 1000.0)
SleepNs(rate, res) == Max(0, IntervalNs(rate) - ElapsedOrZero(res))

\* count / duration with the duration kept in nanoseconds
PerSecond(count, ns) == [count |-> count, ns |-> ns]

BenchmarkResult(total, ns, publish_stats, qf, err) ==
    [total_trades |-> total,
     duration_ns |-> ns,
     trades_per_second |-> PerSecond(total, ns),
     publish_stats |-> publish_stats,
     queue_full_count |-> qf,
     error_count |-> err]

SustainedContinuesAtEnd(clock, end_time) == clock <= end_time

\* while time.perf_counter() < end_time
SustainedContinues(clock, end_time) == clock < end_time

\* the loop body common to both tests: build the trade, publish it, count
BenchSend(fault, elapsed_ns) ==
    LET side == Side(trades_sent)
    IN  /\ publish_with_benchmark(side, fault, elapsed_ns)
        /\ publish_calls' = publish_calls + 1
        /\ LET res == result'[1]
               t == Tally(res, queue_full_count, error_count)
           IN  /\ queue_full_count' = t[1]
               /\ error_count' = t[2]
               /\ bench_outcomes' = Append(bench_outcomes, res)
        /\ trades_sent' = trades_sent + 1
        /\ bench_sides' = Append(bench_sides, side)
        /\ bench_costs' = Append(bench_costs, elapsed_ns)

ReportCaughtNever(fault) == FALSE

\* except Exception as e: what metrics_client.publish_json raises is caught
ReportCaught(fault) == fault = "raises"

\* an exception of the metrics client leaves the reporting method
ReportEscapes(fault) == metrics_client /\ fault = "raises" /\ ~ReportCaught(fault)

\* metrics_client.publish_json(msg) inside try / except Exception
Report(msg, fault) ==
    IF ReportCaught(fault)
    THEN /\ reports' = Append(reports, "raised")
         /\ UNCHANGED metrics_queue
    ELSE LET outcome == SendNoblock(metrics_queue, SNDHWM, fault = "zmq")
         IN  /\ metrics_queue' = Enqueue(metrics_queue, outcome, msg)
             /\ reports' = Append(reports, outcome)

\* PublishingBenchmark._publish_benchmark_result, under if self.metrics_client
publish_benchmark_result(test_type, res, fault) ==
    IF metrics_client
    THEN Report([type |-> "benchmark", test_type |-> test_type,
                 total_trades |-> res.total_trades], fault)
    ELSE UNCHANGED <<metrics_queue, reports>>

\* PublishingBenchmark.publish_status
publish_status(status, fault) ==
    IF metrics_client
    THEN /\ Report([type |-> "benchmark_status", status |-> status], fault)
         /\ statuses' = Append(statuses, status)
         /\ last_status_call' = IF ReportEscapes(fault) THEN "raised" ELSE "returned"
    ELSE /\ last_status_call' = "returned"
         /\ UNCHANGED <<metrics_queue, reports, statuses>>

\* run_burst_test up to its loop
BeginBurst(n) ==
    /\ bench_pc' = "burst"
    /\ bench_args' = BurstTest(n)
    /\ bench_start' = bench_clock
    /\ trades_sent' = 0
    /\ queue_full_count' = 0
    /\ error_count' = 0
    /\ bench_sides' = <<>>
    /\ bench_outcomes' = <<>>
    /\ bench_costs' = <<>>
    /\ bench_sleeps' = <<>>
    /\ bench_result' = None

\* run_sustained_test up to its loop; 1.0 / 0 raises ZeroDivisionError
BeginSustained(d, r) ==
    /\ bench_pc' = IF r = 0 THEN "raised" ELSE "sustained"
    /\ bench_args' = SustainedTest(d, r)
    /\ bench_start' = bench_clock
    /\ trades_sent' = 0
    /\ queue_full_count' = 0
    /\ error_count' = 0
    /\ bench_sides' = <<>>
    /\ bench_outcomes' = <<>>
    /\ bench_costs' = <<>>
    /\ bench_sleeps' = <<>>
    /\ bench_result' = None

\* a caller of the library calls run_burst_test(n) on a new benchmark
run_burst_test(n) ==
    /\ runner_pc = "idle"
    /\ bench_pc = "idle"
    /\ reports = <<>>
    /\ BeginBurst(n)
    /\ UNCHANGED <<bench_clock, results_len, metrics_client, metrics_queue, reports,
                   statuses, last_status_call, status_calls, runnerVars, clientVars, statsVars, sendVars, subVars,
                   callerVars, taskVars, bridgeVars, analyzerVars, monitorVars>>

\* a caller of the library calls run_sustained_test(d, r) on a new benchmark
run_sustained_test(d, r) ==
    /\ runner_pc = "idle"
    /\ bench_pc = "idle"
    /\ reports = <<>>
    /\ BeginSustained(d, r)
    /\ UNCHANGED <<bench_clock, results_len, metrics_client, metrics_queue, reports,
                   statuses, last_status_call, status_calls, runnerVars, clientVars, statsVars, sendVars, subVars,
                   callerVars, taskVars, bridgeVars, analyzerVars, monitorVars>>

\* one pass of the for loop of run_burst_test
BurstSend(fault, elapsed_ns) ==
    /\ bench_pc = "burst"
    /\ trades_sent < bench_args.n
    /\ BenchSend(fault, elapsed_ns)
    /\ bench_clock' = bench_clock + elapsed_ns
    /\ UNCHANGED <<benchmarking, bench_pc, bench_args, bench_start, bench_sleeps,
                   bench_result, results_len, metrics_client, metrics_queue, reports,
                   statuses, last_status_call, status_calls, runnerVars, statsVars, sendVars, subVars, callerVars,
                   taskVars, bridgeVars, analyzerVars, monitorVars>>

\* run_burst_test after its loop
BurstReturn(fault) ==
    /\ bench_pc = "burst"
    /\ trades_sent = bench_args.n
    /\ bench_clock' = bench_clock + 1
    /\ LET res == BenchmarkResult(bench_args.n, bench_clock' - bench_start,
                                  get_latency_stats(publish_times),
                                  queue_full_count, error_count)
       IN  /\ bench_result' = Some(res)
           /\ results_len' = results_len + 1
           /\ publish_benchmark_result("burst", res, fault)
    /\ bench_pc' = IF ReportEscapes(fault) THEN "raised" ELSE "returned"
    /\ UNCHANGED <<bench_args, bench_start, trades_sent, queue_full_count, error_count,
                   bench_sides, bench_outcomes, bench_costs, bench_sleeps,
                   metrics_client, statuses, last_status_call, status_calls, runnerVars, clientVars, statsVars,
                   sendVars, subVars, callerVars, taskVars, bridgeVars, analyzerVars, monitorVars>>

\* one pass of the while loop of run_sustained_test, its sleep included
SustainedSend(fault, elapsed_ns) ==
    /\ bench_pc = "sustained"
    /\ SustainedContinues(bench_clock, bench_start + bench_args.d)
    /\ BenchSend(fault, elapsed_ns)
    /\ LET sleep == SleepNs(bench_args.r, result'[1])
       IN  /\ bench_sleeps' = Append(bench_sleeps, sleep)
           /\ bench_clock' = bench_clock + elapsed_ns + sleep
    /\ UNCHANGED <<benchmarking, bench_pc, bench_args, bench_start, bench_result,
                   results_len, metrics_client, metrics_queue, reports, statuses,
                   last_status_call, status_calls, runnerVars, statsVars, sendVars, subVars, callerVars, taskVars,
                   bridgeVars, analyzerVars, monitorVars>>

\* run_sustained_test after its loop
SustainedReturn(fault) ==
    /\ bench_pc = "sustained"
    /\ ~SustainedContinues(bench_clock, bench_start + bench_args.d)
    /\ bench_clock' = bench_clock + 1
    /\ LET res == BenchmarkResult(trades_sent, bench_clock' - bench_start,
                                  get_latency_stats(publish_times),
                                  queue_full_count, error_count)
       IN  /\ bench_result' = Some(res)
           /\ publish_benchmark_result("sustained", res, fault)
    /\ bench_pc' = IF ReportEscapes(fault) THEN "raised" ELSE "returned"
    /\ UNCHANGED <<bench_args, bench_start, trades_sent, queue_full_count, error_count,
                   bench_sides, bench_outcomes, bench_costs, bench_sleeps, results_len,
                   metrics_client, statuses, last_status_call, status_calls, runnerVars, clientVars, statsVars,
                   sendVars, subVars, callerVars, taskVars, bridgeVars, analyzerVars, monitorVars>>

\* a caller of the library calls publish_status between runs
StatusCall(status, fault) ==
    /\ runner_pc = "idle"
    /\ bench_pc = "idle"
    /\ status_calls < MaxReports
    /\ status_calls' = status_calls + 1
    /\ publish_status(status, fault)
    /\ UNCHANGED <<runVars, bench_clock, bench_result, results_len, metrics_client,
                   runnerVars, clientVars,
                   statsVars, sendVars, subVars, callerVars, taskVars, bridgeVars, analyzerVars, monitorVars>>

(***************************************************************************)
(* The runner commands.  runner_tests is what the command has still to run. *)
(* The suites are scaled: comprehensive runs one burst and one sustained    *)
(* test, profile runs run_sustained_test for each rate of its range.        *)
(***************************************************************************)
RunnerCommands == {"burst", "sustained", "comprehensive", "profile"}
Suites == {"comprehensive", "profile"}
\* (max_rate, step) of run_latency_profile
ProfileArgs == {<<1000000, 500000>>, <<100000, 1000000>>, <<1000000, 0>>}
ProfileDuration == 3000
PauseNs == 1000

\* range(step, max_rate + 1, step); range() refuses a zero step
ProfileTests(max_rate, step) ==
    IF step = 0 THEN <<RangeError>>
    ELSE [k \in 1..(max_rate \div step) |-> SustainedTest(ProfileDuration, k * step)]

Plans ==
    [cmd : {"burst"}, tests : {<<BurstTest(n)>> : n \in BurstSizes}]
    \cup [cmd : {"sustained"},
          tests : {<<SustainedTest(d, r)>> : d \in Durations, r \in Rates}]
    \cup [cmd : {"comprehensive"},
          tests : {<<BurstTest(1), SustainedTest(3000, 100000)>>}]
    \cup [cmd : {"profile"}, tests : {ProfileTests(a[1], a[2]) : a \in ProfileArgs}]

TerminalAlwaysCompleted(in_except) == "completed"

\* the marker of the except branch, and the one that ends the try block
TerminalStatus(in_except) == IF in_except THEN "failed" ELSE "completed"

\* run_*_benchmark / run_latency_profile up to the try: the clients are built
\* and "started" is published
RunnerStart(plan, fault) ==
    /\ runner_pc = "idle"
    /\ bench_pc = "idle"
    /\ metrics_client
    /\ publish_status("started", fault)
    /\ runner_pc' = "trying"
    /\ runner_cmd' = plan.cmd
    /\ runner_tests' = plan.tests
    /\ UNCHANGED <<runVars, bench_clock, bench_result, results_len, metrics_client, status_calls,
                   exit_code, clientVars, statsVars, sendVars, subVars,
                   callerVars, taskVars, bridgeVars, analyzerVars, monitorVars>>

\* inside the try: the next test is begun (after "running" in the suites)
RunnerNext(fault) ==
    /\ runner_pc = "trying"
    /\ bench_pc \in {"idle", "returned"}
    /\ runner_tests # <<>>
    /\ Head(runner_tests).kind # "range_error"
    /\ IF runner_cmd \in Suites
       THEN publish_status("running", fault)
       ELSE UNCHANGED <<metrics_queue, reports, statuses, last_status_call>>
    /\ LET test == Head(runner_tests)
       IN  IF test.kind = "burst" THEN BeginBurst(test.n)
           ELSE BeginSustained(test.d, test.r)
    /\ runner_tests' = Tail(runner_tests)
    /\ bench_clock' = IF bench_pc = "returned" THEN bench_clock + PauseNs ELSE bench_clock
    /\ UNCHANGED <<results_len, metrics_client, status_calls, runner_pc, runner_cmd,
                   exit_code, clientVars, statsVars, sendVars, subVars, callerVars,
                   taskVars, bridgeVars, analyzerVars, monitorVars>>

\* the try block ends: "completed" is published and the command returns
RunnerCompleted(fault) ==
    /\ runner_pc = "trying"
    /\ bench_pc \in {"idle", "returned"}
    /\ runner_tests = <<>>
    /\ publish_status(TerminalStatus(FALSE), fault)
    /\ runner_pc' = "returned"
    /\ exit_code' = Some(0)
    /\ UNCHANGED <<runVars, bench_clock, bench_result, results_len, metrics_client, status_calls,
                   runner_cmd, runner_tests, clientVars, statsVars,
                   sendVars, subVars, callerVars, taskVars, bridgeVars, analyzerVars, monitorVars>>

\* except Exception: "failed" is published, then sys.exit(1)
RunnerFailed(fault) ==
    /\ runner_pc = "trying"
    /\ \/ bench_pc = "raised"
       \/ /\ bench_pc \in {"idle", "returned"}
          /\ runner_tests # <<>>
          /\ Head(runner_tests).kind = "range_error"
    /\ publish_status(TerminalStatus(TRUE), fault)
    /\ runner_pc' = "exited"
    /\ exit_code' = Some(1)
    /\ UNCHANGED <<runVars, bench_clock, bench_result, results_len, metrics_client, status_calls,
                   runner_cmd, runner_tests, clientVars, statsVars,
                   sendVars, subVars, callerVars, taskVars, bridgeVars, analyzerVars, monitorVars>>

BurstCalled == \E n \in BurstSizes : run_burst_test(n)
SustainedCalled == \E d \in Durations, r \in Rates : run_sustained_test(d, r)
BurstSends == \E fault \in BOOLEAN, elapsed_ns \in ElapsedNs : BurstSend(fault, elapsed_ns)
BurstReturns == \E fault \in ReportFaults : BurstReturn(fault)
SustainedSends ==
    \E fault \in BOOLEAN, elapsed_ns \in ElapsedNs : SustainedSend(fault, elapsed_ns)
SustainedReturns == \E fault \in ReportFaults : SustainedReturn(fault)
StatusCalled == \E status \in Statuses, fault \in ReportFaults : StatusCall(status, fault)
RunnerStarts == \E plan \in Plans, fault \in ClientFaults : RunnerStart(plan, fault)
RunnerGoesOn == \E fault \in ClientFaults : RunnerNext(fault)
RunnerCompletes == \E fault \in ClientFaults : RunnerCompleted(fault)
RunnerFails == \E fault \in ClientFaults : RunnerFailed(fault)
\* the peer of the benchmark's client, followed while a run is sending
PeerDrains == bench_pc \in {"burst", "sustained"} /\ Drain

\* PublishingBenchmark.__init__ with a metrics client, as the runners build it
BenchInit ==
    /\ bench_pc = "idle"
    /\ bench_args = NoTest
    /\ bench_clock = 0
    /\ bench_start = 0
    /\ trades_sent = 0
    /\ queue_full_count = 0
    /\ error_count = 0
    /\ bench_sides = <<>>
    /\ bench_outcomes = <<>>
    /\ bench_costs = <<>>
    /\ bench_sleeps = <<>>
    /\ bench_result = None
    /\ results_len = 0
    /\ metrics_client = TRUE
    /\ metrics_queue = <<>>
    /\ reports = <<>>
    /\ statuses = <<>>
    /\ last_status_call = "none"
    /\ status_calls = 0
    /\ runner_pc = "idle"
    /\ runner_cmd = "none"
    /\ runner_tests = <<>>
    /\ exit_code = None

\* PublishingBenchmark(zmq_addr): metrics_client is None
BenchInitBare ==
    /\ bench_pc = "idle"
    /\ bench_args = NoTest
    /\ bench_clock = 0
    /\ bench_start = 0
    /\ trades_sent = 0
    /\ queue_full_count = 0
    /\ error_count = 0
    /\ bench_sides = <<>>
    /\ bench_outcomes = <<>>
    /\ bench_costs = <<>>
    /\ bench_sleeps = <<>>
    /\ bench_result = None
    /\ results_len = 0
    /\ metrics_client = FALSE
    /\ metrics_queue = <<>>
    /\ reports = <<>>
    /\ statuses = <<>>
    /\ last_status_call = "none"
    /\ status_calls = 0
    /\ runner_pc = "idle"
    /\ runner_cmd = "none"
    /\ runner_tests = <<>>
    /\ exit_code = None

(***************************************************************************)
(* Initial states                                                           *)
(***************************************************************************)
\* TradingClient.__init__: the mode is chosen at construction
ClientInit ==
    /\ benchmarking \in BOOLEAN
    /\ sock_queue = <<>>
    /\ publish_times = <<>>
    /\ result = None
    /\ raised = FALSE
    /\ publish_calls = 0
    /\ send_attempts = 0
    /\ last_outcome = "none"
    /\ recorded = <<>>

StatsInit == stats = None

SendInit ==
    /\ pub_queue = <<>>
    /\ pub_blocked = None
    /\ pub_result = None
    /\ ui_queue = <<>>
    /\ ui_blocked = None
    /\ ui_events = <<>>
    /\ ui_errors = 0
    /\ ui_raised = FALSE
    /\ blocking_sends = 0

(***************************************************************************)
(* LatencyAnalyzer.analyze_latency_degradation (benchmark/analyzer.py): a   *)
(* pure function of the profiles handed to it.  A dict key that is absent   *)
(* is None here, a present one is Some(value).                              *)
(***************************************************************************)
\* LatencyProfile, reduced to config["rate"] and results
LatencyProfile(rate, results) == [rate |-> rate, results |-> results]

\* the profiles the loop over profiles keeps: if profile.results.publish_stats
HasStats(profile) == profile.results.publish_stats # None
WithStats(profiles_) == SelectSeq(profiles_, HasStats)

\* (queue_full_count / total_trades) * 100 if total_trades > 0 else 0
QueueFullRate(results) ==
    IF results.total_trades > 0
    THEN [num |-> results.queue_full_count * 100, den |-> results.total_trades]
    ELSE [num |-> 0, den |-> 1]

Twice(r) == [num |-> 2 * r.num, den |-> r.den]

DegradedAtDouble(latency, baseline_p95) == RatLeq(Twice(baseline_p95), latency)

\* latency > baseline_p95 * 2
Degraded(latency, baseline_p95) == ~RatLeq(latency, Twice(baseline_p95))

SaturatedAtOnePct(queue_rate) == RatLeq([num |-> 1, den |-> 1], queue_rate)

\* queue_rate > 1.0
Saturated(queue_rate) == ~RatLeq(queue_rate, [num |-> 1, den |-> 1])

\* for i, x in enumerate(xs): if <test>: ... = rates[i]; break
FirstRate(rates, hits) ==
    IF hits = {} THEN None
    ELSE Some(rates[CHOOSE i \in hits : \A j \in hits : i <= j])

EmptyAnalysis ==
    [rates |-> None, p50_latencies_us |-> None, p95_latencies_us |-> None,
     p99_latencies_us |-> None, queue_full_rates_pct |-> None,
     p95_degradation_rate |-> None, queue_saturation_rate |-> None]

analyze_latency_degradation(profiles_) ==
    IF profiles_ = <<>> THEN EmptyAnalysis
    ELSE LET kept == WithStats(profiles_)
             n == Len(kept)
             rates == [i \in 1..n |-> kept[i].rate]
             p50_latencies == [i \in 1..n |-> kept[i].results.publish_stats[1].p50_us]
             p95_latencies == [i \in 1..n |-> kept[i].results.publish_stats[1].p95_us]
             p99_latencies == [i \in 1..n |-> kept[i].results.publish_stats[1].p99_us]
             queue_full_rates == [i \in 1..n |-> QueueFullRate(kept[i].results)]
         IN  [rates |-> Some(rates),
              p50_latencies_us |-> Some(p50_latencies),
              p95_latencies_us |-> Some(p95_latencies),
              p99_latencies_us |-> Some(p99_latencies),
              queue_full_rates_pct |-> Some(queue_full_rates),
              p95_degradation_rate |->
                  IF n >= 2
                  THEN FirstRate(rates, {i \in 1..n :
                                            Degraded(p95_latencies[i], p95_latencies[1])})
                  ELSE None,
              queue_saturation_rate |->
                  FirstRate(rates, {i \in 1..n : Saturated(queue_full_rates[i])})]

\* a caller hands the profiles it holds to analyze_latency_degradation
Analyze ==
    /\ analysis = None
    /\ analysis' = Some(analyze_latency_degradation(profiles))
    /\ UNCHANGED <<profiles, clientVars, statsVars, sendVars, subVars, callerVars,
                   taskVars, bridgeVars, benchVars, monitorVars>>

\* the latency statistics a benchmarking client can hold at the end of a run
ProfiledStats ==
    {get_latency_stats(times) : times \in {<<>>, <<1000>>, <<2000>>, <<3000>>}}

\* results run_sustained_test can return.  A send finds the queue full only
\* after SNDHWM sends of the same client went through, each of which left a
\* sample, so a result without statistics has no queue_full.
ProfiledResults ==
    {BenchmarkResult(c.total, ProfileDuration, c.publish_stats, c.qf, c.err) :
        c \in {c \in [total : {0, 100}, qf : {0, 1, 2}, err : {0, 100},
                      publish_stats : ProfiledStats] :
                  /\ c.qf + c.err <= c.total
                  /\ c.publish_stats = None => (c.qf = 0 /\ c.err = c.total)}}

\* profile_latency_under_load: the k-th profile is the run at k * step
ProfileLists ==
    UNION {[1..n -> ProfiledResults] : n \in 0..MaxProfiles}

AnalyzerInit ==
    /\ profiles = <<>>
    /\ analysis = None

AnalyzerInitGiven ==
    /\ \E results \in ProfileLists :
          profiles = [k \in 1..Len(results) |-> LatencyProfile(k * 100, results[k])]
    /\ analysis = None

(***************************************************************************)
(* LatencyMonitor (benchmark/monitor.py) bound to a benchmarking client,    *)
(* wired as BenchmarkSelfMonitor wires it (benchmark/self_monitor.py).      *)
(* Every _monitor_loop runs on a thread of its own.  get_latency_stats      *)
(* walks the client's list one element per step while other threads go on   *)
(* publishing; one publish_json call is one step.                           *)
(***************************************************************************)
p95_threshold_us == 1000
p99_threshold_us == 5000
mean_threshold_us == 500

\* send costs seen by the monitored client, in nanoseconds
MonitorElapsedNs == {800, 1500000, 6000000}

\* send costs of the owner's own publishing while the monitor runs
OwnerElapsedNs == {6000000}

\* what a registered callback does with an alert
CallbackKinds == {"handle_benchmark_alert", "raising", "returning"}

\* the callback lists in place when monitoring starts
Registrations ==
    {<<>>, <<"handle_benchmark_alert">>, <<"raising", "handle_benchmark_alert">>,
     <<"returning", "raising">>}

NoLoop ==
    [pc |-> "absent", tick |-> 0, idx |-> 0, copy |-> <<>>, instants |-> {},
     fired |-> <<>>, a |-> 0, c |-> 0, stale |-> FALSE]

\* snapshot.<x>_us > self.<x>_threshold_us
Above(value, threshold_us) == value.num > threshold_us * value.den

CheckRulesFirstOnly(snapshot) ==
    IF Above(snapshot.p95_us, p95_threshold_us) THEN <<"p95">>
    ELSE IF Above(snapshot.p99_us, p99_threshold_us) THEN <<"p99">>
    ELSE IF Above(snapshot.mean_us, mean_threshold_us) THEN <<"mean">>
    ELSE <<>>

\* the alerts list _check_alerts builds: three independent tests
CheckRules(snapshot) ==
    (IF Above(snapshot.p95_us, p95_threshold_us) THEN <<"p95">> ELSE <<>>)
    \o (IF Above(snapshot.p99_us, p99_threshold_us) THEN <<"p99">> ELSE <<>>)
    \o (IF Above(snapshot.mean_us, mean_threshold_us) THEN <<"mean">> ELSE <<>>)

LatencySnapshot(st) ==
    [count |-> st.count, min_us |-> st.min_us, max_us |-> st.max_us,
     mean_us |-> st.mean_us, p95_us |-> st.p95_us, p99_us |-> st.p99_us]

\* deque(maxlen=...).append
DequeAppend(dq, x) == Append(IF Len(dq) >= snapshots_maxlen THEN Tail(dq) ELSE dq, x)

\* every walk in progress sees the list as it now is
Watching(ls, times) ==
    [l \in DOMAIN ls |->
        IF ls[l].pc = "reading" THEN [ls[l] EXCEPT !.instants = @ \cup {times}]
        ELSE ls[l]]

\* self.metrics_client.publish_json(...) made by a thread
MonitorSend(thread, fault, elapsed_ns) ==
    /\ mon_sent < MaxMonSends
    /\ mon_sent' = mon_sent + 1
    /\ publish_calls' = publish_calls + 1
    /\ publish_with_benchmark("benchmark_status", fault, elapsed_ns)
    /\ writers' = IF last_outcome' = "sent" THEN writers \cup {thread} ELSE writers
    /\ UNCHANGED benchmarking

CallbackUncaught(kind) == FALSE

\* try: callback(alert) except Exception
CallbackCaught(kind) == kind = "raising"

\* LatencyMonitor.start_monitoring
start_monitoring ==
    /\ mon_main = "idle"
    /\ IF mon_running
       THEN UNCHANGED <<mon_running, mon_loops, monitor_thread>>
       ELSE \E l \in 1..MaxMonStarts :
               /\ mon_loops[l].pc = "absent"
               /\ \A k \in 1..(l - 1) : mon_loops[k].pc # "absent"
               /\ mon_running' = TRUE
               /\ mon_loops' = [mon_loops EXCEPT ![l].pc = "waiting"]
               /\ monitor_thread' = l
    /\ UNCHANGED <<mon_main, snapshots, alerts, alert_callbacks, deliveries, ticks,
                   tick_log, writers, mon_sent, clientVars, statsVars, sendVars, subVars,
                   callerVars, taskVars, bridgeVars, benchVars, analyzerVars>>

\* LatencyMonitor.stop_monitoring up to monitor_thread.join(timeout=2.0)
stop_monitoring ==
    /\ mon_main = "idle"
    /\ mon_running' = FALSE
    /\ mon_main' = IF monitor_thread # 0 THEN "joining" ELSE "idle"
    /\ UNCHANGED <<mon_loops, monitor_thread, snapshots, alerts, alert_callbacks,
                   deliveries, ticks, tick_log, writers, mon_sent, clientVars, statsVars,
                   sendVars, subVars, callerVars, taskVars, bridgeVars, benchVars,
                   analyzerVars>>

Alive(lp) == lp.pc \notin {"absent", "ended"}

\* join returns: the thread has ended, or the 2 s passed while it slept
JoinEnds ==
    /\ mon_main = "joining"
    /\ mon_loops[monitor_thread].pc \in {"ended", "waiting"}
    /\ mon_main' = "idle"
    /\ mon_loops' = [l \in DOMAIN mon_loops |->
                        IF Alive(mon_loops[l]) THEN [mon_loops[l] EXCEPT !.stale = TRUE]
                        ELSE mon_loops[l]]
    /\ UNCHANGED <<mon_running, monitor_thread, snapshots, alerts, alert_callbacks,
                   deliveries, ticks, tick_log, writers, mon_sent, clientVars, statsVars,
                   sendVars, subVars, callerVars, taskVars, bridgeVars, benchVars,
                   analyzerVars>>

\* where the loop goes after callback c of alert a: the next callback, the
\* next alert (appended to self.alerts), or time.sleep
AfterCallback(lp, history) ==
    IF lp.c < Len(alert_callbacks)
    THEN <<[lp EXCEPT !.c = @ + 1], history>>
    ELSE IF lp.a < Len(lp.fired)
    THEN <<[lp EXCEPT !.a = @ + 1, !.c = 1], Append(history, lp.fired[lp.a + 1])>>
    ELSE <<[lp EXCEPT !.pc = "waiting"], history>>

\* while self.running: the test, and _take_snapshot as far as the first element
LoopHead(l) ==
    /\ mon_loops[l].pc = "waiting"
    /\ IF ~mon_running
       THEN /\ mon_loops' = [mon_loops EXCEPT ![l].pc = "ended"]
            /\ UNCHANGED <<ticks, tick_log>>
       ELSE /\ ticks < MaxTicks
            /\ ticks' = ticks + 1
            /\ IF publish_times = <<>>
               THEN \* if not stats: return None; time.sleep
                    /\ tick_log' = Append(tick_log,
                           [loop |-> l, empty |-> TRUE, copy |-> <<>>, whole |-> TRUE,
                            fired |-> <<>>, stale |-> mon_loops[l].stale])
                    /\ UNCHANGED mon_loops
               ELSE /\ mon_loops' = [mon_loops EXCEPT ![l] =
                           [@ EXCEPT !.pc = "reading", !.tick = ticks + 1, !.idx = 0,
                                     !.copy = <<>>, !.instants = {publish_times},
                                     !.fired = <<>>, !.a = 0, !.c = 0]]
                    /\ UNCHANGED tick_log
    /\ UNCHANGED <<mon_running, monitor_thread, mon_main, snapshots, alerts,
                   alert_callbacks, deliveries, writers, mon_sent, clientVars, statsVars,
                   sendVars, subVars, callerVars, taskVars, bridgeVars, benchVars,
                   analyzerVars>>

\* [t / 1000.0 for t in self._publish_times]: one element
ReadStep(l) ==
    /\ mon_loops[l].pc = "reading"
    /\ mon_loops[l].idx < Len(publish_times)
    /\ mon_loops' = [mon_loops EXCEPT ![l] =
           [@ EXCEPT !.copy = Append(@, publish_times[mon_loops[l].idx + 1]),
                     !.idx = @ + 1]]
    /\ UNCHANGED <<mon_running, monitor_thread, mon_main, snapshots, alerts,
                   alert_callbacks, deliveries, ticks, tick_log, writers, mon_sent, clientVars,
                   statsVars, sendVars, subVars, callerVars, taskVars, bridgeVars,
                   benchVars, analyzerVars>>

\* the walk is over: the statistics, the snapshot, the alerts list and the
\* first alert, up to the first callback
TickFinish(l) ==
    LET lp == mon_loops[l]
        snapshot == LatencySnapshot(get_latency_stats(lp.copy)[1])
        fired == CheckRules(snapshot)
    IN  /\ lp.pc = "reading"
        /\ lp.idx >= Len(publish_times)
        /\ snapshots' = DequeAppend(snapshots, snapshot)
        /\ tick_log' = Append(tick_log,
               [loop |-> l, empty |-> FALSE, copy |-> lp.copy,
                whole |-> lp.copy \in lp.instants, fired |-> fired, stale |-> lp.stale])
        /\ IF fired = <<>>
           THEN /\ mon_loops' = [mon_loops EXCEPT ![l].pc = "waiting"]
                /\ UNCHANGED alerts
           ELSE IF alert_callbacks = <<>>
           THEN /\ mon_loops' = [mon_loops EXCEPT ![l].pc = "waiting"]
                /\ alerts' = alerts \o fired
           ELSE /\ mon_loops' = [mon_loops EXCEPT ![l] =
                       [@ EXCEPT !.pc = "alerting", !.fired = fired, !.a = 1, !.c = 1]]
                /\ alerts' = Append(alerts, fired[1])
        /\ UNCHANGED <<mon_running, monitor_thread, mon_main, alert_callbacks,
                       deliveries, ticks, writers, mon_sent, clientVars, statsVars, sendVars,
                       subVars, callerVars, taskVars, bridgeVars, benchVars,
                       analyzerVars>>

\* callback(alert) for the callback and the alert the loop has reached
Callback(l, fault, elapsed_ns) ==
    LET lp == mon_loops[l]
        kind == alert_callbacks[lp.c]
        next == AfterCallback(lp, alerts)
    IN  /\ lp.pc = "alerting"
        /\ deliveries' = Append(deliveries,
               [tick |-> lp.tick, alert |-> lp.fired[lp.a], callback |-> lp.c])
        /\ IF kind = "handle_benchmark_alert"
           THEN MonitorSend(<<"monitor", l>>, fault, elapsed_ns)
           ELSE UNCHANGED <<clientVars, writers, mon_sent>>
        /\ IF kind = "raising" /\ ~CallbackCaught(kind)
           THEN \* the exception reaches _monitor_loop's except: time.sleep
                /\ mon_loops' = Watching([mon_loops EXCEPT ![l].pc = "waiting"],
                                         publish_times')
                /\ UNCHANGED alerts
           ELSE /\ mon_loops' = Watching([mon_loops EXCEPT ![l] = next[1]],
                                         publish_times')
                /\ alerts' = next[2]
        /\ UNCHANGED <<mon_running, monitor_thread, mon_main, snapshots,
                       alert_callbacks, ticks, tick_log, statsVars, sendVars, subVars,
                       callerVars, taskVars, bridgeVars, benchVars, analyzerVars>>

\* the owner of the client publishes from the main thread, as
\* BenchmarkSelfMonitor.start_monitoring and stop_monitoring do
OwnerSend(fault, elapsed_ns) ==
    /\ mon_main = "idle"
    /\ MonitorSend(<<"main", 0>>, fault, elapsed_ns)
    /\ mon_loops' = Watching(mon_loops, publish_times')
    /\ UNCHANGED <<mon_running, monitor_thread, mon_main, snapshots, alerts,
                   alert_callbacks, deliveries, ticks, tick_log, statsVars, sendVars,
                   subVars, callerVars, taskVars, bridgeVars, benchVars, analyzerVars>>

\* one round of _health_reporting_loop on its own thread
HealthReport(fault, elapsed_ns) ==
    /\ mon_running
    /\ \E c \in 1..Len(alert_callbacks) : alert_callbacks[c] = "handle_benchmark_alert"
    /\ publish_times # <<>>
    /\ MonitorSend(<<"health", 0>>, fault, elapsed_ns)
    /\ mon_loops' = Watching(mon_loops, publish_times')
    /\ UNCHANGED <<mon_running, monitor_thread, mon_main, snapshots, alerts,
                   alert_callbacks, deliveries, ticks, tick_log, statsVars, sendVars,
                   subVars, callerVars, taskVars, bridgeVars, benchVars, analyzerVars>>

LoopHeads == \E l \in 1..MaxMonStarts : LoopHead(l)
ReadSteps == \E l \in 1..MaxMonStarts : ReadStep(l)
TickFinishes == \E l \in 1..MaxMonStarts : TickFinish(l)
Callbacks ==
    \E l \in 1..MaxMonStarts, elapsed_ns \in MonitorElapsedNs : Callback(l, FALSE, elapsed_ns)
OwnerSends == \E elapsed_ns \in OwnerElapsedNs : OwnerSend(FALSE, elapsed_ns)
HealthReports == \E elapsed_ns \in MonitorElapsedNs : HealthReport(FALSE, elapsed_ns)

MonitorInit ==
    /\ mon_running = FALSE
    /\ mon_loops = [l \in 1..MaxMonStarts |-> NoLoop]
    /\ monitor_thread = 0
    /\ mon_main = "idle"
    /\ snapshots = <<>>
    /\ alerts = <<>>
    /\ alert_callbacks = <<>>
    /\ deliveries = <<>>
    /\ ticks = 0
    /\ tick_log = <<>>
    /\ writers = {}
    /\ mon_sent = 0

\* LatencyMonitor(client) followed by the add_alert_callback calls
MonitorInitRegistered ==
    /\ mon_running = FALSE
    /\ mon_loops = [l \in 1..MaxMonStarts |-> NoLoop]
    /\ monitor_thread = 0
    /\ mon_main = "idle"
    /\ snapshots = <<>>
    /\ alerts = <<>>
    /\ alert_callbacks \in Registrations
    /\ deliveries = <<>>
    /\ ticks = 0
    /\ tick_log = <<>>
    /\ writers = IF publish_times = <<>> THEN {} ELSE {<<"main", 0>>}
    /\ mon_sent = 0

\* what the client's list holds when the monitor is built on it
MonitoredBuffers ==
    {<<>>, [i \in 1..max_samples |-> IF i = 1 THEN 800 ELSE IF i = 2 THEN 1500000 ELSE 6000000]}
    \cup {<<e>> : e \in MonitorElapsedNs}

\* a benchmarking client whose owner has published before, the peer having
\* taken every message
MonitoredClientInit ==
    /\ benchmarking = TRUE
    /\ sock_queue = <<>>
    /\ publish_times \in MonitoredBuffers
    /\ recorded = publish_times
    /\ publish_calls = Len(publish_times)
    /\ send_attempts = Len(publish_times)
    /\ result = IF publish_times = <<>> THEN None
                ELSE Some(BenchResult("sent", publish_times[Len(publish_times)]))
    /\ raised = FALSE
    /\ last_outcome = IF publish_times = <<>> THEN "none" ELSE "sent"

InitCore ==
    ClientInit /\ StatsInit /\ SendInit /\ SubInit /\ CallerInit /\ TaskInit /\ BridgeInit
Init == InitCore /\ BenchInit /\ AnalyzerInit /\ MonitorInit

(***************************************************************************)
(* SpecClient: one TradingClient, its callers and the peer draining it.     *)
(***************************************************************************)
NextClient == Publish \/ Drain
SpecClient == Init /\ [][NextClient]_vars

(***************************************************************************)
(* SpecStats: get_latency_stats applied to buffers of 1..StatsMaxN samples. *)
(* The buffers are those left by n successful instrumented sends whose      *)
(* costs fall, rise, sit on two levels or show one slow send; the real      *)
(* capacity (10000) admits every one of these sizes.                        *)
(***************************************************************************)
StatsShapes == {"falling", "rising", "two_level", "spike"}
StatsBuffer(shape, n, k) ==
    [i \in 1..n |->
        CASE shape = "falling"   -> (n - i + 1) * 100
          [] shape = "rising"    -> i * 100
          [] shape = "two_level" -> IF i <= k THEN 2500 ELSE 800
          [] shape = "spike"     -> IF i = k THEN 2500 ELSE 800]

StatsInputs ==
    {StatsBuffer(shape, n, k) :
        shape \in {"falling", "rising"}, n \in 1..StatsMaxN, k \in {0}}
    \cup UNION {{StatsBuffer(shape, n, k) : k \in 1..n, shape \in {"two_level", "spike"}} :
                 n \in 1..StatsMaxN}

InitStats ==
    /\ benchmarking = TRUE
    /\ sock_queue = <<>>
    /\ publish_times \in StatsInputs
    /\ recorded = publish_times
    /\ result = None
    /\ raised = FALSE
    /\ publish_calls = Len(publish_times)
    /\ send_attempts = Len(publish_times)
    /\ last_outcome = "sent"
    /\ StatsInit
    /\ SendInit
    /\ SubInit
    /\ CallerInit
    /\ TaskInit
    /\ BridgeInit
    /\ BenchInit
    /\ AnalyzerInit /\ MonitorInit

NextStats == GetLatencyStats
SpecStats == InitStats /\ [][NextStats]_vars

(***************************************************************************)
(* SpecSend: the two senders that call send with flags=0.                   *)
(***************************************************************************)
NextSend ==
    PubSend \/ PubUnblock \/ PubSendTimesOut \/ PubDrain
    \/ UISend \/ UISendCompletes \/ UIDrain \/ LibSend
SpecSend == Init /\ [][NextSend]_vars

(***************************************************************************)
(* SpecSub: one TradeSubscriber, its callers, its peers and its loop tasks. *)
(***************************************************************************)
NextSub ==
    Start \/ StopCall \/ MessageArrives \/ Deliver \/ LoopResumes
    \/ LoopTimesOut \/ LoopWakes \/ LoopFirstRun
\* the publishers live in another process: their state is fixed here
InitSub == Init /\ ~benchmarking
SpecSub == InitSub /\ [][NextSub]_vars

(***************************************************************************)
(* SpecSidecar: the subscriber inside the metrics sidecar: its handler is   *)
(* MetricsSidecar.handle_trade_message and its peers are the benchmark       *)
(* tooling.                                                                  *)
(***************************************************************************)
NextSidecar ==
    Start \/ StopCall \/ TelemetryArrives \/ Deliver \/ SidecarResumes
    \/ LoopTimesOut \/ LoopWakes \/ LoopFirstRun
SpecSidecar == InitSub /\ [][NextSidecar]_vars

(***************************************************************************)
(* SpecLifecycle: one TradeSubscriber whose start() and stop() calls are     *)
(* recorded, made by trade_subscriber_context and by holders of the          *)
(* subscriber, with trades arriving.                                         *)
(***************************************************************************)
NextLifecycle ==
    ContextEnters \/ ContextExits \/ CallerStarts \/ CallerStops
    \/ TradeArrives \/ Deliver \/ LoopResumes \/ LoopTimesOut \/ LoopWakes \/ LoopFirstRun
InitLifecycle ==
    /\ ClientInit /\ ~benchmarking
    /\ StatsInit /\ SendInit /\ SubInit /\ TaskInit /\ BridgeInit /\ BenchInit
    /\ AnalyzerInit /\ MonitorInit
    /\ (CallerInit \/ ContextInit)
SpecLifecycle == InitLifecycle /\ [][NextLifecycle]_vars

\* The event loop resumes every task whose awaited future has finished, runs
\* every task that was created, and lets every wait_for and sleep run out.
LoopFairness ==
    /\ WF_vars(LoopResumes)
    /\ \A L \in 1..MaxStarts :
          WF_vars(Timeout(L)) /\ WF_vars(Wake(L)) /\ WF_vars(FirstRun(L))
SpecLifecycleFair == SpecLifecycle /\ LoopFairness

(***************************************************************************)
(* SpecTasks: the TaskManager of main(), its three tasks and its callers.   *)
(***************************************************************************)
NextTasks ==
    AddTask \/ TaskStarts \/ ActivityFinishes \/ CancelArrives
    \/ cancel_all_tasks \/ catch_breaking_errors \/ MainInterrupted
\* the publishers and the subscriber are not part of it: their state is fixed
InitTasks == Init /\ ~benchmarking
SpecTasks == InitTasks /\ [][NextTasks]_vars

(***************************************************************************)
(* SpecBridge: the tasks of main() with the bridge loop in detail, the UI    *)
(* pushing messages to it and the peer draining the client it forwards to.   *)
(***************************************************************************)
NextBridge ==
    AddTask \/ OtherTaskStarts \/ UiActivityFinishes \/ OtherCancelArrives
    \/ cancel_all_tasks \/ catch_breaking_errors \/ MainInterrupted
    \/ BridgeStarts \/ BridgeWakes \/ BridgeCancelled \/ UiPushes \/ Drain
SpecBridge == InitTasks /\ [][NextBridge]_vars

(***************************************************************************)
(* SpecBench: one PublishingBenchmark, with or without a metrics client, a  *)
(* caller of its methods and the peer draining its client.                  *)
(***************************************************************************)
NextBench ==
    BurstCalled \/ SustainedCalled \/ BurstSends \/ BurstReturns
    \/ SustainedSends \/ SustainedReturns \/ StatusCalled \/ PeerDrains
InitBench == InitCore /\ benchmarking /\ (BenchInit \/ BenchInitBare) /\ AnalyzerInit /\ MonitorInit
SpecBench == InitBench /\ [][NextBench]_vars

(***************************************************************************)
(* SpecRunner: one run of a runner command.                                  *)
(***************************************************************************)
NextRunner ==
    RunnerStarts \/ RunnerGoesOn \/ RunnerCompletes \/ RunnerFails
    \/ BurstSends \/ BurstReturns \/ SustainedSends \/ SustainedReturns \/ PeerDrains
InitRunner == InitCore /\ benchmarking /\ BenchInit /\ AnalyzerInit /\ MonitorInit
SpecRunner == InitRunner /\ [][NextRunner]_vars

(***************************************************************************)
(* SpecAnalyzer: a LatencyAnalyzer holding a list of profiles, analysed once.*)
(***************************************************************************)
NextAnalyzer == Analyze
InitAnalyzer ==
    InitCore /\ benchmarking /\ BenchInit /\ AnalyzerInitGiven /\ MonitorInit
SpecAnalyzer == InitAnalyzer /\ [][NextAnalyzer]_vars

(***************************************************************************)
(* SpecMonitor: one LatencyMonitor on a benchmarking client, started once:  *)
(* its loop, its callbacks and the health reporting thread.                  *)
(***************************************************************************)
NextMonitor ==
    start_monitoring \/ LoopHeads \/ ReadSteps \/ TickFinishes \/ Callbacks
    \/ HealthReports \/ OwnerSends
InitMonitor ==
    /\ MonitoredClientInit
    /\ StatsInit /\ SendInit /\ SubInit /\ CallerInit /\ TaskInit /\ BridgeInit
    /\ BenchInit /\ AnalyzerInit /\ MonitorInitRegistered
SpecMonitor == InitMonitor /\ [][NextMonitor]_vars

(***************************************************************************)
(* SpecMonitorThreads: a LatencyMonitor without callbacks, started and       *)
(* stopped by the owner of the client, who goes on publishing.               *)
(***************************************************************************)
NextMonitorThreads ==
    start_monitoring \/ stop_monitoring \/ JoinEnds \/ LoopHeads \/ ReadSteps
    \/ TickFinishes \/ OwnerSends
InitMonitorThreads ==
    InitMonitor /\ alert_callbacks = <<>> /\ Len(publish_times) \in {0, max_samples}
SpecMonitorThreads == InitMonitorThreads /\ [][NextMonitorThreads]_vars

Next ==
    NextClient \/ NextStats \/ NextSend \/ NextSub \/ NextSidecar \/ NextLifecycle
    \/ NextTasks \/ NextBridge \/ NextBench \/ NextRunner \/ NextAnalyzer
    \/ NextMonitor \/ NextMonitorThreads
Spec == Init /\ [][Next]_vars

(***************************************************************************)
(* Claims about the publisher                                               *)
(***************************************************************************)
QueueFullResult == PublishResult(FALSE, Some("queue_full"), None, TRUE)

\* C1: in plain mode a publish_json call that finds the outbound queue full
\* makes exactly one send attempt, returns ok=false, queue_full=true,
\* error="queue_full", and leaves the queue as it was.
C1_PlainQueueFullFailsFast ==
    [][(/\ publish_calls' = publish_calls + 1
        /\ ~benchmarking
        /\ Len(sock_queue) >= SNDHWM
        /\ last_outcome' \notin {"error", "dumps_error"})
       => (/\ result' # None
           /\ result'[1].ok = FALSE
           /\ result'[1].queue_full = TRUE
           /\ result'[1].error = Some("queue_full")
           /\ ~raised'
           /\ send_attempts' = send_attempts + 1
           /\ sock_queue' = sock_queue)]_vars

\* a plain client whose second (or later) send met the full queue
C1_Witness ==
    /\ ~benchmarking
    /\ publish_calls >= 2
    /\ last_outcome = "again"
    /\ result = Some(QueueFullResult)
    /\ Len(sock_queue) = SNDHWM

\* C2: no send of any publish path suspends: no publish_json or _send_trade
\* call is ever waiting inside its send.  (TradingClient sends with NOBLOCK and
\* completes within its one step.)
C2_NoSendSuspends == pub_blocked = None /\ ui_blocked = None

StatsCount(s) == IF s = None THEN 0 ELSE s[1].count

\* C3: in instrumented mode every send attempt appends one sample, so
\* get_latency_stats().count is min(number of send attempts, capacity).
C3_EverySendRecorded ==
    benchmarking =>
        StatsCount(get_latency_stats(publish_times)) = Min(send_attempts, max_samples)

\* C4: the ring buffer never exceeds its capacity and always holds the most
\* recent min(recorded, capacity) samples in recording order.
C4_RingIsFifo ==
    /\ Len(publish_times) <= max_samples
    /\ LET n == Len(recorded)
           k == Min(n, max_samples)
       IN  publish_times = SubSeq(recorded, n - k + 1, n)

\* more samples recorded than the buffer holds, the oldest one gone
C4_Witness ==
    /\ Len(recorded) > max_samples
    /\ Len(publish_times) = max_samples
    /\ recorded[1] # publish_times[1]

\* C5: every result publish_json returns has ok=true with error unset or
\* ok=false with error set, and queue_full only with ok=false.
C5_OutcomeWellFormed ==
    result # None =>
        LET r == result[1]
        IN  /\ (r.ok /\ r.error = None) \/ (~r.ok /\ r.error # None)
            /\ r.queue_full => ~r.ok

\* an instrumented send that failed for a reason other than a full queue
C5_Witness ==
    /\ benchmarking
    /\ last_outcome = "error"
    /\ result # None
    /\ ~result[1].ok
    /\ ~result[1].queue_full

\* C6: in instrumented mode every returned result carries an elapsed value.
C6_ElapsedAlwaysReturned ==
    (benchmarking /\ result # None) => result[1].elapsed_ms # None

\* the capacity the code sets (self._max_samples); max_samples above is its
\* scaled stand-in for the ring's behaviour
Capacity == 10000

RatLt(a, b) == ~RatLeq(b, a)

\* v is the element at 0-based index idx of the ascending arrangement of times (in us)
AtSortedIndex(times, v, idx) ==
    LET n == Len(times)
    IN  /\ Cardinality({i \in 1..n : RatLt(Us(times[i]), v)}) <= idx
        /\ idx < Cardinality({i \in 1..n : RatLeq(Us(times[i]), v)})

IndexInRange(n) == \A pct \in {50, 95, 99} : PctIndex(n, pct) \in 0..(n - 1)

\* C7: for a non-empty buffer get_latency_stats returns min <= p50 <= p95 <=
\* p99 <= max, each percentile the element of the sorted samples at index
\* floor(count * percentile), an index within [0, count-1] for every count
\* from 1 to the capacity.  (The range over all counts does not depend on the
\* state and is evaluated at the one-sample buffers only.)
C7_PercentilesMonotone ==
    (stats # None /\ stats[1] # None) =>
        LET s == stats[1][1]
            n == Len(publish_times)
        IN  /\ s.count = n
            /\ RatLeq(s.min_us, s.p50_us)
            /\ RatLeq(s.p50_us, s.p95_us)
            /\ RatLeq(s.p95_us, s.p99_us)
            /\ RatLeq(s.p99_us, s.max_us)
            /\ AtSortedIndex(publish_times, s.min_us, 0)
            /\ AtSortedIndex(publish_times, s.p50_us, (n * 50) \div 100)
            /\ AtSortedIndex(publish_times, s.p95_us, (n * 95) \div 100)
            /\ AtSortedIndex(publish_times, s.p99_us, (n * 99) \div 100)
            /\ AtSortedIndex(publish_times, s.max_us, n - 1)
            /\ IndexInRange(n)
            /\ (n = 1 => \A m \in 1..Capacity : IndexInRange(m))

\* statistics of an unsorted buffer large enough for the five values to differ
C7_Witness ==
    /\ stats # None
    /\ stats[1] # None
    /\ publish_times[1] > publish_times[Len(publish_times)]
    /\ LET s == stats[1][1]
       IN  /\ RatLt(s.min_us, s.p50_us)
           /\ RatLt(s.p50_us, s.p95_us)
           /\ RatLt(s.p95_us, s.p99_us)
           /\ RatLt(s.p99_us, s.max_us)

(***************************************************************************)
(* Claims about the ingestion loop                                          *)
(***************************************************************************)
LoopIds == 1..MaxStarts
\* ids of the messages received and not yet passed to _process_message
PendingIds == {loops[L].raw : L \in {K \in LoopIds : loops[K].pc = "ready"}}
HandledIds == {handled[i] : i \in 1..Len(handled)}
\* loop L is resumed in this step with the message it holds
Dispatches(L) ==
    /\ loops[L].pc = "ready"
    /\ readyq # <<>>
    /\ Head(readyq) = L
    /\ readyq' = Tail(readyq)
\* where a loop stands after an iteration that ended normally
BackToReceiving == IF running /\ sock \in open_socks THEN "awaiting" ELSE "done"

\* the bad payloads the claim names: malformed JSON, an unrecognised type, a
\* side outside {buy, sell}, a negative qty, a missing field
BadKeys == {"garbage", "bogus", "trade_hold", "trade_neg", "trade_no_ts"}
\* payloads that satisfy the wire format
ValidKeys == {"trade_buy", "trade_sell", "benchmark_ok", "status_started"}

\* C8: a bad message causes no handler invocation and no exception out of
\* _process_message, its loop goes back to receiving, and every valid message
\* received after a bad one is dispatched.
C8_BadMessageNeverHaltsIngestion ==
    /\ [][\A L \in LoopIds :
            (Dispatches(L) /\ received[loops[L].raw] \in BadKeys)
            => (/\ handled' = handled
                /\ escaped' = escaped
                /\ loops'[L].pc = BackToReceiving)]_vars
    /\ [](\A id \in 1..Len(received) :
            (/\ \E j \in 1..(id - 1) : received[j] \in BadKeys
             /\ received[id] \in ValidKeys
             /\ id \notin PendingIds)
            => id \in HandledIds)
    /\ [](\A id \in HandledIds : received[id] \notin BadKeys)

\* a bad message was dropped and a valid one received after it was handled
C8_Witness ==
    \E j, id \in 1..Len(received) :
        /\ j < id
        /\ received[j] \in BadKeys
        /\ j \notin PendingIds
        /\ j \notin HandledIds
        /\ received[id] \in ValidKeys
        /\ id \in HandledIds

\* C9: when the handler raises, the exception stays inside _process_message,
\* the loop goes back to receiving, and the handler is still called for every
\* later message that decodes.
C9_HandlerFailureIsIsolated ==
    /\ [][\A L \in LoopIds :
            (Dispatches(L) /\ handler_raised' # handler_raised)
            => (/\ escaped' = escaped
                /\ handled' = Append(handled, loops[L].raw)
                /\ loops'[L].pc = BackToReceiving)]_vars
    /\ [](\A id \in 1..Len(received) :
            (/\ \E j \in handler_raised : j < id
             /\ Decodes(received[id])
             /\ id \notin PendingIds)
            => id \in HandledIds)

\* the handler raised on one message and was called again for a later one
C9_Witness ==
    \E j \in handler_raised : \E id \in HandledIds : j < id

\* C10: the handler is called exactly once per successfully decoded message,
\* in arrival order, and no receive is in progress or finished while an
\* earlier message is still to be dispatched.
C10_InOrder == \A i, j \in 1..Len(handled) : i < j => handled[i] < handled[j]
C10_ExactlyOnce ==
    HandledIds = {id \in 1..Len(received) : Decodes(received[id]) /\ id \notin PendingIds}
C10_OneAtATime ==
    PendingIds # {} => (Cardinality(PendingIds) = 1 /\ waiters = <<>>)
C10_DispatchOncePerMessageInOrder ==
    C10_InOrder /\ C10_ExactlyOnce /\ C10_OneAtATime

(***************************************************************************)
(* Claims about the sidecar                                                 *)
(***************************************************************************)
\* the status values of the wire format
WireStatuses == {"started", "running", "completed", "failed", "alert"}

\* C11: every benchmark_status envelope that carries the required fields and
\* a status among started, running, completed, failed, alert is decoded and
\* dispatched to the handler once the loop that received it has resumed.
C11_EveryStatusDispatched ==
    \A id \in 1..Len(received) :
        LET c == Content(received[id])
        IN  (/\ c.syntax = "object"
             /\ c.type = "benchmark_status"
             /\ c.complete
             /\ c.status \in WireStatuses
             /\ id \notin PendingIds)
            => id \in HandledIds

\* C12: every benchmark envelope the sidecar receives and decodes is recorded:
\* its dispatch to the sidecar's handler adds one to benchmark_tests_total for
\* its (test_type, test_name) and sets the throughput and latency gauges to the
\* envelope's values.
C12_BenchmarkRecorded ==
    [][\A L \in LoopIds :
         (/\ Dispatches(L)
          /\ Content(received[loops[L].raw]).type = "benchmark"
          /\ Decodes(received[loops[L].raw])
          /\ handler_raised' = handler_raised)
         => LET b == Benchmark(received[loops[L].raw])
                l == <<b.test_type, b.test_name>>
            IN  /\ metrics'.benchmark_tests_total[l] = metrics.benchmark_tests_total[l] + 1
                /\ metrics'.benchmark_throughput_trades_per_second[l]
                      = Some(b.trades_per_second)
                /\ metrics'.benchmark_latency_p95_microseconds[l] = Some(b.p95_us)]_vars

(***************************************************************************)
(* Claims about the subscriber's life cycle                                 *)
(***************************************************************************)
\* the _message_loop tasks created so far
LoopsCreated == {L \in LoopIds : loops[L].pc # "unborn"}
\* this step is a recorded call of op
Calls(op) == calls' = calls + 1 /\ last_call'.op = op

\* C13: start() on a subscriber that is running is a no-op: no context or
\* socket is created, no endpoint is bound, no message loop is started and
\* nothing else of the subscriber changes.
C13_StartWhileRunningIsNoOp ==
    [][(Calls("start") /\ running)
       => (/\ sock' = sock
           /\ open_socks' = open_socks
           /\ LoopsCreated' = LoopsCreated
           /\ UNCHANGED subVars)]_vars

\* start() was called on a running subscriber, which still has its first
\* socket and its one loop
C13_Witness ==
    /\ last_call = [op |-> "start", was_running |-> TRUE]
    /\ running
    /\ sock = 1
    /\ open_socks = {1}
    /\ LoopsCreated = {1}

\* C14: stop is idempotent.  Whatever start() and stop() calls are made, the
\* context manager's included, a socket that was opened has been closed once
\* when it is no longer open and never more than once; stop() on a running
\* subscriber closes its socket; stop() on a subscriber that is stopped or was
\* never started changes nothing.
C14_StopIsIdempotent ==
    /\ [](\A k \in 1..sock : closes[k] = IF k \in open_socks THEN 0 ELSE 1)
    /\ [][(Calls("stop") /\ running)
          => (~running' /\ sock \notin open_socks' /\ closes'[sock] = 1)]_vars
    /\ [][(Calls("stop") /\ ~running) => UNCHANGED subVars]_vars

\* the context manager's exit called stop() on a subscriber a holder had
\* already stopped: its socket has been closed once
C14_Witness ==
    /\ ctx = "exited"
    /\ last_call = [op |-> "stop", was_running |-> FALSE]
    /\ sock = 1
    /\ closes[1] = 1

\* the subscriber was started and has been stopped
Stopped == sock # 0 /\ ~running

\* C15: Stopped is terminal: from a stopped subscriber no step, a further
\* start() included, leads to a state where it is running, has an open socket
\* or has taken another message off a socket.
C15_StoppedIsTerminal ==
    [][Stopped => (Stopped' /\ open_socks' = {} /\ received' = received)]_vars

\* loop L has ended: it left its while loop or was ended by a CancelledError
Terminated(L) == loops[L].pc \in {"done", "cancelled"}
\* stop() has just been called on the running subscriber whose loop is L
JustStopped(L) == sock = L /\ ~running /\ closes[L] = 1 /\ ~Terminated(L)

\* C16: after stop() is called on a running subscriber, its message loop
\* eventually terminates, whether or not a message arrives.
C16_StoppedLoopTerminates ==
    \A L \in LoopIds : JustStopped(L) ~> Terminated(L)

\* the same, for as long as the subscriber is not started again
C16_TerminatesUnlessRestarted ==
    \A L \in LoopIds : JustStopped(L) ~> (Terminated(L) \/ sock # L)

(***************************************************************************)
(* Claims about the task coordinator                                        *)
(***************************************************************************)
\* the registered activities that completed with an error
Failed == {n \in TaskNames : tasks[n].st = "done_error"}
\* this step is a poll of the watchdog
Polls == polls' = polls + 1
\* this step is a cancel_all_tasks call that found something to cancel
CancelsAll == \E n \in TaskNames : ~tasks[n].cancel_req /\ tasks'[n].cancel_req

\* C17: when a registered activity has completed with an error, the next poll
\* of the watchdog sets the stop signal and the watchdog returns.
C17_WatchdogSignalsAtNextPoll ==
    [][(Polls /\ Failed # {})
       => (/\ stop_signal'
           /\ sets' = sets + 1
           /\ watchdog' = "returned"
           /\ tasks'[Monitor].st = "done_ok")]_vars

\* the main loop failed, which sets nothing by itself; the watchdog polled
\* once, set the signal and returned
C17_Witness ==
    /\ tasks["main loop"].st = "done_error"
    /\ tasks["streamlit ui"].st = "running"
    /\ main_pc = "body"
    /\ polls = 1
    /\ sets = 1
    /\ stop_signal
    /\ watchdog = "returned"

\* C18: a poll of the watchdog sets the stop signal only if some registered
\* activity has completed with an error; with none, whatever was cancelled or
\* returned normally, and the signal not set, the poll sets nothing and the
\* watchdog goes on polling.
C18_SignalOnlyOnError ==
    [][Polls
       => (/\ (sets' # sets \/ stop_signal' # stop_signal) => Failed # {}
           /\ (Failed = {} /\ ~stop_signal)
                => (/\ watchdog' = "sleeping"
                    /\ tasks' = tasks
                    /\ UNCHANGED <<stop_signal, sets>>))]_vars

\* the watchdog polled with one activity ended by cancellation and the other
\* returned normally: the signal is not set and the watchdog still polls
C18_Witness ==
    /\ polls >= 1
    /\ \E n \in Activities : tasks[n].st = "cancelled"
    /\ \E n \in Activities : tasks[n].st = "done_ok"
    /\ ~stop_signal
    /\ sets = 0
    /\ watchdog = "sleeping"

\* C19: the stop signal is monotonic: no step resets it, and a set() made when
\* it is already set leaves it set.
C19_SignalMonotonic ==
    /\ [][stop_signal => stop_signal']_vars
    /\ [](sets > 0 => stop_signal)

\* the signal was set three times (by the UI task, by the watchdog and by
\* main) and is set
C19_Witness ==
    /\ sets = 3
    /\ stop_signal

\* C20: cancel_all_tasks requests the cancellation of every registered task
\* that is not done and of no other, ends no task, does not set the stop
\* signal and leaves the registry and the watchdog's position as they are.
C20_CancelAllFrame ==
    [][CancelsAll
       => (/\ \A n \in TaskNames :
                /\ tasks'[n].st = tasks[n].st
                /\ (tasks[n].st \in {"new", "running"} => tasks'[n].cancel_req)
                /\ (tasks[n].st \notin {"new", "running"} => tasks'[n] = tasks[n])
           /\ UNCHANGED <<stop_signal, sets, watchdog, polls, main_pc>>)]_vars

\* cancellation is requested of a task that runs, while a task that had
\* failed carries no request and the signal is not set
C20_Witness ==
    /\ \E n \in TaskNames : tasks[n].st = "running" /\ tasks[n].cancel_req
    /\ \E n \in TaskNames : tasks[n].st = "done_error" /\ ~tasks[n].cancel_req
    /\ ~stop_signal

(***************************************************************************)
(* Claims about the bridge loop and the UI                                   *)
(***************************************************************************)
\* the bridge is suspended in its sleep with the stop signal set or its
\* cancellation requested
MustLeave == tasks[Bridge].st = "running" /\ (stop_signal \/ tasks[Bridge].cancel_req)

\* C21: once the stop signal is set or the task is cancelled, run_main_loop
\* takes no further message: the next time it runs it returns without an
\* error, and internal_sock is closed by that step and never a second time.
C21_BridgeLeavesCleanly ==
    /\ [][MustLeave =>
            /\ forwarded' = forwarded
            /\ Len(internal_inbox') >= Len(internal_inbox)
            /\ tasks'[Bridge].st \in {"running", "done_ok"}
            /\ tasks'[Bridge].st = "done_ok" =>
                  /\ internal_sock' = "closed"
                  /\ internal_closes = 0
                  /\ internal_closes' = 1]_vars
    /\ [](internal_closes <= 1)

C21_Witness ==
    /\ tasks[Bridge].st = "done_ok"
    /\ stop_signal
    /\ ~tasks["streamlit ui"].cancel_req
    /\ internal_inbox # <<>>
    /\ internal_sock = "closed"
    /\ internal_closes = 1

\* the bridge takes the oldest text off internal_sock
TakesMessage == internal_inbox # <<>> /\ internal_inbox' = Tail(internal_inbox)

\* C22: a message the bridge cannot parse or forward costs a log line or a
\* failed result only: the step that takes it leaves the bridge in its loop
\* and the stop signal as it was, and the bridge never ends with an error
\* once it has entered its loop.
C22_MessageErrorsContained ==
    /\ [][TakesMessage =>
            /\ tasks'[Bridge].st = "running"
            /\ stop_signal' = stop_signal]_vars
    /\ [](tasks[Bridge].st = "done_error" => internal_sock = "unbound")

\* what does hold: a forward that fails is contained
C22_FailedForwardContained ==
    [][(TakesMessage /\ forwarded' = forwarded + 1) =>
            /\ tasks'[Bridge].st = "running"
            /\ stop_signal' = stop_signal
            /\ warnings' = IF result'[1].ok THEN warnings ELSE warnings + 1]_vars

\* what TradeMsg must refuse
InvalidTrade(side, qty) == side \notin {"buy", "sell"} \/ qty < 0
ValidTradeMsg(msg) == msg.type = "trade" /\ msg.side \in {"buy", "sell"} /\ msg.qty >= 0

\* C23: a _send_trade call given a side outside {buy, sell} or a negative
\* quantity reports the invalid payload and puts nothing on an outbound
\* channel nor in the event list, and every message held by an outbound
\* channel is a validated trade.
C23_InvalidTradesNeverSent ==
    /\ [][\A side \in UISides, qty \in UIQtys :
            (/\ InvalidTrade(side, qty)
             /\ \/ \E fault \in BOOLEAN : UISendTrade(side, qty, fault)
                \/ \E fault \in BOOLEAN, room_made \in BOOLEAN, elapsed_ns \in ElapsedNs :
                      lib_send_trade(side, qty, fault, room_made, elapsed_ns))
            => /\ ui_errors' = ui_errors + 1
               /\ UNCHANGED <<ui_queue, ui_blocked, pub_queue, pub_blocked, ui_events>>]_vars
    /\ [](/\ \A i \in 1..Len(ui_queue) : ValidTradeMsg(ui_queue[i])
          /\ ui_blocked # None => ValidTradeMsg(ui_blocked[1])
          /\ \A i \in 1..Len(pub_queue) : pub_queue[i] \in {"buy", "sell"}
          /\ \A i \in 1..Len(ui_events) : ValidTradeMsg(ui_events[i].payload))

C23_Witness ==
    /\ ui_errors = 1
    /\ ui_queue # <<>>
    /\ pub_queue # <<>>
    /\ Len(ui_events) = 2

(***************************************************************************)
(* Claims about the benchmark tooling                                        *)
(***************************************************************************)
BurstRan == bench_args.kind = "burst" /\ bench_pc = "returned"
SustainedRan == bench_args.kind = "sustained" /\ bench_pc = "returned"

\* C24: run_burst_test(N) returns, whatever its sends met, after exactly N
\* send attempts with sides buy, sell, buy, ... and no sleep between them, and
\* its result has total_trades = N and trades_per_second = N / duration.
C24_BurstSendsExactlyN ==
    /\ bench_args.kind = "burst" => bench_pc # "raised"
    /\ bench_pc = "burst" =>
          /\ Len(bench_sides) <= bench_args.n
          /\ \A i \in 1..Len(bench_sides) :
                bench_sides[i] = IF i % 2 = 1 THEN "buy" ELSE "sell"
    /\ BurstRan =>
          LET n == bench_args.n
              res == bench_result[1]
          IN  /\ Len(bench_outcomes) = n
              /\ send_attempts = n
              /\ Len(bench_sides) = n
              /\ \A i \in 1..n : bench_sides[i] = IF i % 2 = 1 THEN "buy" ELSE "sell"
              /\ bench_sleeps = <<>>
              /\ res.duration_ns = SumTo(bench_costs, n) + 1
              /\ res.total_trades = n
              /\ res.trades_per_second = [count |-> n, ns |-> res.duration_ns]

C24_Witness ==
    /\ BurstRan
    /\ bench_args.n = MaxBurst
    /\ bench_outcomes[1].ok
    /\ \E i \in 1..MaxBurst : bench_outcomes[i].queue_full

QueueFullOutcomes == {i \in 1..Len(bench_outcomes) : bench_outcomes[i].queue_full}
ErrorOutcomes ==
    {i \in 1..Len(bench_outcomes) : ~bench_outcomes[i].ok /\ ~bench_outcomes[i].queue_full}

\* C25: in run_burst_test and in run_sustained_test queue_full_count is the
\* number of sends that met a full queue and error_count the number of sends
\* that failed otherwise, all along the run and in the result, where their
\* sum does not exceed total_trades.
C25_TalliesExactAndDisjoint ==
    /\ bench_pc \in {"burst", "sustained", "returned"} =>
          /\ queue_full_count = Cardinality(QueueFullOutcomes)
          /\ error_count = Cardinality(ErrorOutcomes)
          /\ queue_full_count + error_count <= Len(bench_outcomes)
    /\ bench_pc = "returned" =>
          LET res == bench_result[1]
          IN  /\ res.queue_full_count = Cardinality(QueueFullOutcomes)
              /\ res.error_count = Cardinality(ErrorOutcomes)
              /\ res.queue_full_count + res.error_count <= res.total_trades

C25_Witness ==
    /\ BurstRan
    /\ bench_result[1].queue_full_count = 1
    /\ bench_result[1].error_count = 1
    /\ bench_result[1].total_trades = 4

SustainedRun == bench_args.kind = "sustained" /\ bench_pc \in {"sustained", "returned"}

\* max(0, interval - cost) for the i-th send of the run
Compensation(i) ==
    LET interval == 1000000000 \div bench_args.r
    IN  IF bench_costs[i] >= interval THEN 0 ELSE interval - bench_costs[i]

\* C26: run_sustained_test sleeps after every send, failed ones included,
\* for max(0, interval - elapsed) where interval = 1 / R and elapsed is what
\* that send cost: never a negative time, and none when the send cost at
\* least the interval.
C26_SleepCompensatesEverySend ==
    SustainedRun =>
        /\ Len(bench_sleeps) = trades_sent
        /\ \A i \in 1..Len(bench_sleeps) :
              /\ bench_sleeps[i] >= 0
              /\ bench_sleeps[i] = Compensation(i)

\* what does hold: the sleep follows every send, is never negative, and
\* compensates every send whose result carries its elapsed time
C26_CompensatesMeasuredSends ==
    SustainedRun =>
        /\ Len(bench_sleeps) = trades_sent
        /\ \A i \in 1..Len(bench_sleeps) :
              /\ bench_sleeps[i] >= 0
              /\ bench_outcomes[i].elapsed_ms # None => bench_sleeps[i] = Compensation(i)
              /\ bench_outcomes[i].elapsed_ms = None =>
                    bench_sleeps[i] = 1000000000 \div bench_args.r

\* the clock at the end of the k-th pass of the loop, counted from start_time
PassedNs(k) == SumTo(bench_costs, k) + SumTo(bench_sleeps, k)
Deadline == bench_start + bench_args.d

\* C27: run_sustained_test(D, R) with R > 0 ends: every pass of its loop
\* starts before start + D and moves the clock forward, no pass starts once
\* the clock has reached start + D, and the result holds the number of sends
\* made and that number over the time that really passed.
C27_SustainedStopsAtDeadline ==
    /\ [][(bench_pc = "sustained" /\ trades_sent' # trades_sent) =>
            /\ bench_clock < Deadline
            /\ bench_clock' > bench_clock
            /\ trades_sent' = trades_sent + 1]_vars
    /\ [][(bench_pc = "sustained" /\ bench_clock >= Deadline) =>
            trades_sent' = trades_sent]_vars
    /\ [](bench_args.kind = "sustained" /\ bench_args.r > 0 => bench_pc # "raised")
    /\ [](SustainedRan =>
            LET n == trades_sent
                res == bench_result[1]
            IN  /\ n = Len(bench_outcomes)
                /\ n = send_attempts
                /\ bench_clock - 1 = bench_start + PassedNs(n)
                /\ PassedNs(n) >= bench_args.d
                /\ n > 0 => PassedNs(n - 1) < bench_args.d
                /\ res.total_trades = n
                /\ res.duration_ns = bench_clock - bench_start
                /\ res.duration_ns > 0
                /\ res.trades_per_second = [count |-> n, ns |-> res.duration_ns])

C27_Witness ==
    /\ SustainedRan
    /\ bench_args.d = 4000
    /\ trades_sent = 4
    /\ PassedNs(4) = 4000
    /\ bench_result[1].duration_ns = 4001

\* C28: whatever becomes of a report (sent, refused by the metrics client's
\* socket, or an exception of the metrics client), run_burst_test and
\* run_sustained_test return their BenchmarkResult and publish_status
\* returns; a benchmark without a metrics client reports nothing and its
\* runs return as well.
C28_ReportingNeverFailsTheRun ==
    /\ bench_pc = "raised" => (bench_args.kind = "sustained" /\ bench_args.r = 0)
    /\ bench_pc = "returned" =>
          /\ bench_result # None
          /\ metrics_client => Len(reports) = 1
    /\ last_status_call # "raised"
    /\ status_calls > 0 => last_status_call = "returned"
    /\ ~metrics_client => (reports = <<>> /\ metrics_queue = <<>> /\ statuses = <<>>)
    /\ Len(metrics_queue) = Cardinality({i \in 1..Len(reports) : reports[i] = "sent"})

C28_Witness ==
    /\ SustainedRan
    /\ reports = <<"raised">>
    /\ bench_result[1].total_trades = 4

Terminal(status) == status \in {"completed", "failed"}
\* an Exception left the body of the command's try block
RunHasRaised ==
    \/ bench_pc = "raised"
    \/ runner_tests # <<>> /\ Head(runner_tests).kind = "range_error"

NoStatsMeansNoQueueFull ==
    (bench_result # None /\ bench_result[1].publish_stats = None)
        => (/\ bench_result[1].queue_full_count = 0
            /\ bench_result[1].error_count = bench_result[1].total_trades)

ExceedsOnePercent(profile) ==
    profile.results.queue_full_count * 100 > profile.results.total_trades

\* C30: once analyze_latency_degradation has returned, its
\* queue_saturation_rate is the rate of the first profile of the list whose
\* queue_full_count / total_trades is above 1%, and it is absent exactly
\* when no profile of the list is above 1%.
C30_SaturationIsFirstAboveOnePercent ==
    analysis # None =>
        LET above == {i \in 1..Len(profiles) : ExceedsOnePercent(profiles[i])}
        IN  IF above = {}
            THEN analysis[1].queue_saturation_rate = None
            ELSE \E i \in above :
                    /\ \A j \in above : i <= j
                    /\ analysis[1].queue_saturation_rate = Some(profiles[i].rate)

\* a run without statistics, then one at exactly 1%, then the first above it
C30_Witness ==
    /\ analysis # None
    /\ Len(profiles) = 3
    /\ profiles[1].results.publish_stats = None
    /\ profiles[1].results.total_trades = 100
    /\ profiles[2].results.queue_full_count = 1
    /\ profiles[2].results.total_trades = 100
    /\ ExceedsOnePercent(profiles[3])
    /\ analysis[1].queue_saturation_rate = Some(profiles[3].rate)

P95(profile) == profile.results.publish_stats[1].p95_us

\* C31: once analyze_latency_degradation has returned, its
\* p95_degradation_rate is the rate of the first profile whose p95 latency is
\* above twice the baseline, the p95 of the first profile of the list that
\* has latency statistics (the first profile whenever it has any), and it
\* is absent when no profile is above twice the baseline.
C31_DegradationIsFirstAboveTwiceBaseline ==
    analysis # None =>
        LET measured == {i \in 1..Len(profiles) : profiles[i].results.publish_stats # None}
            first == CHOOSE i \in measured : \A j \in measured : i <= j
            above == {i \in measured :
                         P95(profiles[i]).num * P95(profiles[first]).den
                             > 2 * P95(profiles[first]).num * P95(profiles[i]).den}
        IN  IF above = {}
            THEN analysis[1].p95_degradation_rate = None
            ELSE \E i \in above :
                    /\ \A j \in above : i <= j
                    /\ analysis[1].p95_degradation_rate = Some(profiles[i].rate)

\* a baseline, then a run at exactly twice its p95, then the first above it
C31_Witness ==
    /\ analysis # None
    /\ Len(profiles) = 3
    /\ profiles[1].results.publish_stats # None
    /\ profiles[2].results.publish_stats # None
    /\ profiles[3].results.publish_stats # None
    /\ P95(profiles[1]) = Us(1000)
    /\ P95(profiles[2]) = Us(2000)
    /\ P95(profiles[3]) = Us(3000)
    /\ analysis[1].p95_degradation_rate = Some(profiles[3].rate)

(***************************************************************************)
(* Claims about the latency monitor                                         *)
(***************************************************************************)
\* no loop is inside a round
Quiet == \A l \in 1..MaxMonStarts : mon_loops[l].pc \notin {"reading", "alerting"}

Exceeds(st, rule) ==
    CASE rule = "p95" -> st.p95_us.num > 1000 * st.p95_us.den
      [] rule = "p99" -> st.p99_us.num > 5000 * st.p99_us.den
      [] rule = "mean" -> st.mean_us.num > 500 * st.mean_us.den

\* the rules the statistics of the samples a round summarised violate
Violated(round) ==
    IF round.empty THEN <<>>
    ELSE SelectSeq(<<"p95", "p99", "mean">>,
                   LAMBDA rule : Exceeds(get_latency_stats(round.copy)[1], rule))

RECURSIVE AlertsDue(_)
AlertsDue(k) == IF k = 0 THEN 0 ELSE Len(Violated(tick_log[k])) + AlertsDue(k - 1)

Measured == {k \in 1..Len(tick_log) : ~tick_log[k].empty}

\* C32: between rounds, every round that found the recorder empty has left
\* no snapshot, no alert and no callback call, and every other round has
\* left one snapshot (the history keeping the last snapshots_maxlen) and as
\* many alerts as its statistics violate of the three rules p95 > 1000,
\* p99 > 5000 and mean > 500 microseconds.
C32_TickStoresAndAlerts ==
    Quiet =>
        /\ Len(alerts) = AlertsDue(Len(tick_log))
        /\ Len(snapshots) = IF Cardinality(Measured) < snapshots_maxlen
                            THEN Cardinality(Measured) ELSE snapshots_maxlen
        /\ \A d \in 1..Len(deliveries) : deliveries[d].tick \in Measured
        /\ Measured # {} =>
              LET k == CHOOSE m \in Measured : \A j \in Measured : j <= m
              IN  snapshots[Len(snapshots)].count = Len(tick_log[k].copy)

\* a round on an empty recorder, then two rounds violating all three rules
C32_Witness ==
    /\ Quiet
    /\ Len(tick_log) = 3
    /\ tick_log[1].empty
    /\ Len(Violated(tick_log[2])) = 3
    /\ Len(Violated(tick_log[3])) = 3
    /\ Len(alerts) = 6
    /\ Len(snapshots) = 2

RoundOver(k) ==
    \A l \in 1..MaxMonStarts : ~(mon_loops[l].pc = "alerting" /\ mon_loops[l].tick = k)

\* the calls a round owes: every alert, in turn, to every callback in
\* registration order
CallsDue(k) ==
    LET due == Violated(tick_log[k])
        nc == Len(alert_callbacks)
    IN  [i \in 1..(Len(due) * nc) |->
            [tick |-> k, alert |-> due[((i - 1) \div nc) + 1],
             callback |-> ((i - 1) % nc) + 1]]

\* C33: once a round is over, the callback calls made in it are exactly one
\* call per alert and registered callback, alert by alert and in registration
\* order, whichever callbacks raised; and the loop of a running monitor has
\* not ended.
C33_EveryAlertToEveryCallback ==
    /\ \A k \in 1..Len(tick_log) :
          RoundOver(k) => SelectSeq(deliveries, LAMBDA d : d.tick = k) = CallsDue(k)
    /\ \A l \in 1..MaxMonStarts : mon_running => mon_loops[l].pc # "ended"

\* two rounds with alerts, the second callback raising every time
C33_Witness ==
    /\ Quiet
    /\ alert_callbacks = <<"returning", "raising">>
    /\ Len(tick_log) = 2
    /\ Len(Violated(tick_log[1])) = 2
    /\ Len(Violated(tick_log[2])) = 3
    /\ Len(deliveries) = 10

\* C34: the alert history holds no more alerts than the snapshots the
\* snapshot history can hold account for, three rules each.
C34_AlertHistoryBounded == Len(alerts) <= 3 * snapshots_maxlen

\* C36: at most one thread has ever stored a sample in the monitored
\* client's list.
C36_SingleWriter == Cardinality(writers) <= 1


\* C35: the samples every round of the monitor summarised are the contents
\* the publisher's list had at one instant of the read.
C35_StatsOverOneInstant ==
    \A k \in 1..Len(tick_log) : tick_log[k].whole

\* C37: at most one monitor loop is alive, and no round is taken by a loop
\* after a stop_monitoring call issued after its start has returned.
C37_OneLoopAndNoRoundAfterStop ==
    /\ Cardinality({l \in 1..MaxMonStarts : Alive(mon_loops[l])}) <= 1
    /\ \A k \in 1..Len(tick_log) : ~tick_log[k].stale


(***************************************************************************)
(* Claims about the subscriber's restarts                                   *)
(***************************************************************************)
LoopActive(L) == loops[L].pc \notin {"unborn", "done", "cancelled"}

\* C38: at most one message loop is active, and no loop has a receive
\* pending on a socket created by a start() later than the one that spawned
\* the loop.
C38_OneLoopOnItsOwnSocket ==
    /\ Cardinality({L \in 1..MaxStarts : LoopActive(L)}) <= 1
    /\ \A i \in 1..Len(waiters) : waiters[i] = sock

\* C39: no step taken while the subscriber is stopped (stop() has returned,
\* start() was not called since) invokes the handler.
C39_NoHandlerAfterStop ==
    [][~running => handled' = handled]_vars


\* C40: the latency statistics of a returned result count no more samples
\* than the run made send attempts.
C40_StatsDescribeTheRun ==
    (bench_result # None /\ bench_result[1].publish_stats # None)
        => bench_result[1].publish_stats[1].count <= bench_result[1].total_trades

====
